---- MODULE Spec2Model ----
(***************************************************************************)
(* Model of the Kiro gateway core: the authentication manager with its    *)
(* account pool (src/kiro/auth.py), the Anthropic SSE encoder              *)
(* (src/kiro_gateway/anthropic_streaming.py), the billing engine           *)
(* (src/kiro/billing.py, src/kiro/mongodb_store.py) and the request        *)
(* handlers (src/kiro_gateway/routes.py).                                  *)
(***************************************************************************)
EXTENDS Integers, Sequences, FiniteSets, TLC

(***************************************************************************)
(* Bounds of the model.                                                    *)
(***************************************************************************)
MaxPool == 2        \* largest account pool explored (0 = single-account env mode)
NTasks == 2         \* concurrent request tasks
MaxCalls == 3       \* auth manager calls the request tasks make in all
MaxTicks == 1       \* clock steps explored
MaxExternal == 1    \* writes another process makes to the credential store
Now0 == 1000        \* clock value at start (seconds)
TickSeconds == 60   \* seconds one clock step advances
ShortExpiresIn == 600   \* a short expiresIn the issuance endpoint may answer
MaxChunks == 3      \* chunks the upstream stream delivers to the encoder
MaxToolCalls == 2   \* tool calls one chunk carries at most
MaxDeducts == 2     \* deductions made from the ledger
NRequests == 2      \* requests the route handlers serve
MaxBodyBytes == 2   \* body frames a streamed response delivers
MaxRotationCalls == 2   \* get_access_token calls made with the answers recorded
MaxRefreshCalls == 2    \* get_access_token calls made with the clock read to the millisecond
MaxFrames == 3      \* chunks stream_kiro_to_openai yields to the wrapper
MaxRing == 4        \* largest pool the forced selections walk
MaxSelections == 9  \* forced selections made in a row
MaxUpstreamToolCalls == 2   \* tool calls the upstream stream makes
MaxFragments == 2   \* delta entries one tool call's arguments arrive in at most
MaxEntries == 2     \* entries one delta.tool_calls list holds at most
MaxBlockEvents == 8 \* content block events after which no further chunk is fed
MaxBlocks == 3      \* content blocks one user message holds at most
MaxPreflights == 2  \* preflight checks made in a row
MaxAccesses == 2    \* requests checked for their API key in a row
MaxRelayed == 40    \* chunks the proxy relays at most
MaxBatchRequests == 2   \* most requests of a message batch
MaxSuffix == 1          \* largest account suffix of a key of the KV store
MaxLoaded == 2          \* most token records of the KV store

(***************************************************************************)
(* Program constants.                                                      *)
(***************************************************************************)
DEFAULT_ACCOUNT_QUARANTINE_SECONDS == 60
TOKEN_REFRESH_THRESHOLD == 600
DefaultExpiresIn == 3600
ExpiryBuffer == 60

Tasks == 1..NTasks

VARIABLES
    now,        \* datetime.now(timezone.utc), in seconds
    pool,       \* _account_pool: sequence of account records
    rr,         \* _round_robin_index
    active,     \* the active-account projection (_sqlite_token_key, _access_token, ...)
    store,      \* auth_kv rows of the credential store, by token key
    lock,       \* holder of _lock (0 = free): the task awaiting a refresh response
    reqKey,     \* _request_account_key, one slot per request task (0 = None)
    call,       \* the auth manager call of the lock holder
    ret,        \* outcome of the auth manager call that ended last (observation only)
    seen,       \* what each request has seen of its tokens (observation only)
    calls,      \* auth manager calls made so far
    gen,        \* tokens issued so far for each account (by the issuance endpoint)
    hist,       \* what has happened so far (observation only)
    lastSel     \* the latest account selection (observation only)

authVars == <<now, pool, rr, active, store, lock, reqKey, call, ret, seen, calls, gen, hist,
              lastSel>>

\* stream_openai_sse_to_anthropic_sse: its locals, its input and its output
VARIABLES
    content_block_index,
    text_block_open,
    tool_calls_seen,    \* len(tool_calls_seen)
    finish_reason,      \* "none" = None
    events,             \* the SSE events yielded so far
    consumed,           \* chunks taken from openai_sse so far
    spc                 \* "new", "streaming", "ended" (normally), "failed" (after an exception)

streamVars == <<content_block_index, text_block_open, tool_calls_seen, finish_reason, events,
                consumed, spc>>

\* kiro/billing.py and the credit ledger of kiro/mongodb_store.py
VARIABLES
    pricing,            \* the ModelPricing row the model resolves to
    billing_decimal_places,  \* BILLING_DECIMAL_PLACES
    billing_enabled,    \* BILLING_ENABLED
    balance,            \* the user's balance field in the store (a double)
    exact,              \* the balance in exact decimal (observation only)
    lastDeduct,         \* the latest deduct_credits_for_usage (observation only)
    deducts             \* deductions made so far

billVars == <<pricing, billing_decimal_places, billing_enabled, balance, exact, lastDeduct, deducts>>

\* kiro_gateway/routes.py: the requests being served, each with its KiroHttpClient
VARIABLES
    req

routeVars == <<req>>

\* kiro_gateway/routes.py: what each request task put into its upstream payload
VARIABLES
    payload

payloadVars == <<payload>>

\* kiro_gateway/http_client.py: one request_with_retry call
VARIABLES
    hc_state,           \* "idle", "sending", "body" (streaming a 200), "done"
    hc_stream,          \* the stream argument
    hc_attempt,         \* the retry counter
    hc_refreshed,       \* force_refresh has been called for this request
    hc_log,             \* what the engine did, in order (observation only)
    hc_result           \* how the call ended

engineVars == <<hc_state, hc_stream, hc_attempt, hc_refreshed, hc_log, hc_result>>

\* the accounts chosen by successive forced selections (observation only)
VARIABLES picks

ringVars == <<picks>>

\* the answers of the issuance endpoint, each with the number of the call
\* that was given it, the account it was for, what the manager held when it
\* came (the clock in seconds and the milliseconds past the second, the
\* active access token and its expiry, the accounts in quarantine), the token
\* it issued and the expires_at computed from it in milliseconds
\* (observation only)
VARIABLES answers

rotationVars == <<answers>>

\* kiro_gateway/routes.py chat_completions: the stream_wrapper generator of
\* one streamed response
VARIABLES
    wrapper,            \* the generator: where it stands, its flags, its end
    received,           \* the frames the client has received, in order
    connected           \* the client is still connected

wrapperVars == <<wrapper, received, connected>>

\* kiro_gateway/routes.py: what each request got from request_with_retry and
\* what status its client was answered with
VARIABLES reply

replyVars == <<reply>>

\* kiro_gateway/anthropic_streaming.py stream_openai_sse_to_anthropic_sse: the
\* tool-call loop of one stream, with the identity of every delta entry
VARIABLES
    delivered,          \* the entries of delta.tool_calls consumed so far
    blocks,             \* the content block events yielded so far
    block_index,        \* content_block_index
    block_open,         \* text_block_open
    tool_pc             \* idle, streaming, ended

toolVars == <<delivered, blocks, block_index, block_open, tool_pc>>

\* kiro_gateway/anthropic_converters.py openai_chat_completion_to_anthropic_message:
\* the collected OpenAI response handed in and the Anthropic message made of it
VARIABLES collected

collectVars == <<collected>>

\* kiro_gateway/anthropic_converters.py _anthropic_messages_to_openai_messages:
\* the content of one user message and the OpenAI messages made of it
VARIABLES lifted

liftVars == <<lifted>>

\* kiro/billing.py ensure_user_has_sufficient_credits over the credits collection
\* of kiro/mongodb_store.py
VARIABLES
    credits_doc,        \* the credits record of the user: its balance, if any
    enforcement,        \* BILLING_ENABLED and BILLING_ENFORCE_SUFFICIENT_CREDITS
    preflight           \* the calls made: how many, and the last one

preflightVars == <<credits_doc, enforcement, preflight>>

\* kiro/billing.py _resolve_model_pricing: the unknown-model policy and the last
\* charge made for a model id
VARIABLES
    unknown_model_policy,   \* BILLING_UNKNOWN_MODEL_POLICY
    model_charge                 \* the last deduct_credits_for_usage call, observed

policyVars == <<unknown_model_policy, model_charge>>

\* kiro_gateway/routes.py verify_api_key, verify_any_api_key: the requests that
\* came in, and what the last one carried and got
VARIABLES access

accessVars == <<access>>

\* deploy_app/main.py create_app.chat_completions with stream=true: one request of
\* the forwarding proxy
VARIABLES proxy

proxyVars == <<proxy>>

\* the latest selection of an account (observation only)
VARIABLES chosen

selectVars == <<chosen>>

\* the JSON credentials file of a manager without a KV store
VARIABLES creds_file

fileVars == <<creds_file>>

\* a message batch of the in-process registry, its task and a reader of its results
VARIABLES
    anthropic_batch,      \* the entry of _anthropic_batches
    batch_results,        \* the entry of _anthropic_batch_results
    batch_task,           \* the position of _run_anthropic_batch
    results_stream,       \* the generator of get_message_batch_results
    recorded              \* every result the task has appended (observation only)

batchVars == <<anthropic_batch, batch_results, batch_task, results_stream, recorded>>

\* a KV store of credentials and the manager constructed from it
VARIABLES
    auth_kv,              \* the auth_kv table / collection: variant, token and registration payloads
    accounts,             \* _account_pool as the load built it: key, auth_type, client fields
    current,              \* position in accounts of the active account, 0 before any is active
    refresh_protocol      \* the method _refresh_token_request last routed to

loadVars == <<auth_kv, accounts, current, refresh_protocol>>

nonAuthVars == <<streamVars, billVars, routeVars, payloadVars, engineVars, ringVars, rotationVars, wrapperVars, replyVars, toolVars, collectVars, liftVars, preflightVars, policyVars, accessVars, proxyVars, selectVars, fileVars, batchVars, loadVars>>
nonStreamVars == <<authVars, billVars, routeVars, payloadVars, engineVars, ringVars, rotationVars, wrapperVars, replyVars, toolVars, collectVars, liftVars, preflightVars, policyVars, accessVars, proxyVars, selectVars, fileVars, batchVars, loadVars>>
nonBillVars == <<authVars, streamVars, routeVars, payloadVars, engineVars, ringVars, rotationVars, wrapperVars, replyVars, toolVars, collectVars, liftVars, preflightVars, policyVars, accessVars, proxyVars, selectVars, fileVars, batchVars, loadVars>>
nonRouteVars == <<authVars, streamVars, billVars, payloadVars, engineVars, ringVars, rotationVars, wrapperVars, replyVars, toolVars, collectVars, liftVars, preflightVars, policyVars, accessVars, proxyVars, selectVars, fileVars, batchVars, loadVars>>
nonPayloadVars == <<authVars, streamVars, billVars, routeVars, engineVars, ringVars, rotationVars, wrapperVars, replyVars, toolVars, collectVars, liftVars, preflightVars, policyVars, accessVars, proxyVars, selectVars, fileVars, batchVars, loadVars>>
nonEngineVars == <<authVars, streamVars, billVars, routeVars, payloadVars, ringVars, rotationVars, wrapperVars, replyVars, toolVars, collectVars, liftVars, preflightVars, policyVars, accessVars, proxyVars, selectVars, fileVars, batchVars, loadVars>>
nonAuthRingVars == <<streamVars, billVars, routeVars, payloadVars, engineVars, rotationVars, wrapperVars, replyVars, toolVars, collectVars, liftVars, preflightVars, policyVars, accessVars, proxyVars, selectVars, fileVars, batchVars, loadVars>>
nonRingVars == <<authVars, streamVars, billVars, routeVars, payloadVars, engineVars, rotationVars, wrapperVars, replyVars, toolVars, collectVars, liftVars, preflightVars, policyVars, accessVars, proxyVars, selectVars, fileVars, batchVars, loadVars>>
nonAuthRotationVars == <<streamVars, billVars, routeVars, payloadVars, engineVars, ringVars, wrapperVars, replyVars, toolVars, collectVars, liftVars, preflightVars, policyVars, accessVars, proxyVars, selectVars, fileVars, batchVars, loadVars>>
nonRotationVars == <<authVars, streamVars, billVars, routeVars, payloadVars, engineVars, ringVars, wrapperVars, replyVars, toolVars, collectVars, liftVars, preflightVars, policyVars, accessVars, proxyVars, selectVars, fileVars, batchVars, loadVars>>
nonWrapperVars == <<authVars, streamVars, billVars, routeVars, payloadVars, engineVars, ringVars, rotationVars, replyVars, toolVars, collectVars, liftVars, preflightVars, policyVars, accessVars, proxyVars, selectVars, fileVars, batchVars, loadVars>>
nonReplyVars == <<authVars, streamVars, billVars, routeVars, payloadVars, engineVars, ringVars, rotationVars, wrapperVars, toolVars, collectVars, liftVars, preflightVars, policyVars, accessVars, proxyVars, selectVars, fileVars, batchVars, loadVars>>
nonToolVars == <<authVars, streamVars, billVars, routeVars, payloadVars, engineVars, ringVars, rotationVars, wrapperVars, replyVars, collectVars, liftVars, preflightVars, policyVars, accessVars, proxyVars, selectVars, fileVars, batchVars, loadVars>>
nonCollectVars == <<authVars, streamVars, billVars, routeVars, payloadVars, engineVars, ringVars, rotationVars, wrapperVars, replyVars, toolVars, liftVars, preflightVars, policyVars, accessVars, proxyVars, selectVars, fileVars, batchVars, loadVars>>
nonLiftVars == <<authVars, streamVars, billVars, routeVars, payloadVars, engineVars, ringVars, rotationVars, wrapperVars, replyVars, toolVars, collectVars, preflightVars, policyVars, accessVars, proxyVars, selectVars, fileVars, batchVars, loadVars>>
nonPreflightVars == <<authVars, streamVars, billVars, routeVars, payloadVars, engineVars, ringVars, rotationVars, wrapperVars, replyVars, toolVars, collectVars, liftVars, policyVars, accessVars, proxyVars, selectVars, fileVars, batchVars, loadVars>>
nonPolicyVars == <<authVars, streamVars, billVars, routeVars, payloadVars, engineVars, ringVars, rotationVars, wrapperVars, replyVars, toolVars, collectVars, liftVars, preflightVars, accessVars, proxyVars, selectVars, fileVars, batchVars, loadVars>>
nonBillPolicyVars == <<authVars, streamVars, routeVars, payloadVars, engineVars, ringVars, rotationVars, wrapperVars, replyVars, toolVars, collectVars, liftVars, preflightVars, accessVars, proxyVars, selectVars, fileVars, batchVars, loadVars>>
nonAccessVars == <<authVars, streamVars, billVars, routeVars, payloadVars, engineVars, ringVars, rotationVars, wrapperVars, replyVars, toolVars, collectVars, liftVars, preflightVars, policyVars, proxyVars, selectVars, fileVars, batchVars, loadVars>>
nonProxyVars == <<authVars, streamVars, billVars, routeVars, payloadVars, engineVars, ringVars, rotationVars, wrapperVars, replyVars, toolVars, collectVars, liftVars, preflightVars, policyVars, accessVars, selectVars, fileVars, batchVars, loadVars>>
nonSelectVars == <<authVars, streamVars, billVars, routeVars, payloadVars, engineVars, ringVars, rotationVars, wrapperVars, replyVars, toolVars, collectVars, liftVars, preflightVars, policyVars, accessVars, proxyVars, fileVars, batchVars, loadVars>>
nonAuthSelectVars == <<streamVars, billVars, routeVars, payloadVars, engineVars, ringVars, rotationVars, wrapperVars, replyVars, toolVars, collectVars, liftVars, preflightVars, policyVars, accessVars, proxyVars, fileVars, batchVars, loadVars>>
nonFileVars == <<authVars, streamVars, billVars, routeVars, payloadVars, engineVars, ringVars, rotationVars, wrapperVars, replyVars, toolVars, collectVars, liftVars, preflightVars, policyVars, accessVars, proxyVars, selectVars, batchVars, loadVars>>
nonAuthFileVars == <<streamVars, billVars, routeVars, payloadVars, engineVars, ringVars, rotationVars, wrapperVars, replyVars, toolVars, collectVars, liftVars, preflightVars, policyVars, accessVars, proxyVars, selectVars, batchVars, loadVars>>
nonBatchVars == <<authVars, streamVars, billVars, routeVars, payloadVars, engineVars, ringVars, rotationVars, wrapperVars, replyVars, toolVars, collectVars, liftVars, preflightVars, policyVars, accessVars, proxyVars, selectVars, fileVars, loadVars>>
nonLoadVars == <<authVars, streamVars, billVars, routeVars, payloadVars, engineVars, ringVars, rotationVars, wrapperVars, replyVars, toolVars, collectVars, liftVars, preflightVars, policyVars, accessVars, proxyVars, selectVars, fileVars, batchVars>>

(***************************************************************************)
(* Numbers of any size.  A natural number is the sequence of its limbs in  *)
(* base b, least significant first, without leading zero limbs; <<>> is 0. *)
(* A limb holds k digits of radix r (b = r^k): four decimal digits for the *)
(* coefficients of Python's Decimal, twelve bits for the mantissas of      *)
(* binary doubles.                                                         *)
(***************************************************************************)
RECURSIVE Pow(_, _)
Pow(r, n) == IF n = 0 THEN 1 ELSE r * Pow(r, n - 1)

RECURSIVE Trim(_)
Trim(x) == IF x # <<>> /\ x[Len(x)] = 0 THEN Trim(SubSeq(x, 1, Len(x) - 1)) ELSE x

RECURSIVE NatOf(_, _)
NatOf(n, b) == IF n = 0 THEN <<>> ELSE <<n % b>> \o NatOf(n \div b, b)

Limb(x, i) == IF i <= Len(x) THEN x[i] ELSE 0

RECURSIVE AddFrom(_, _, _, _, _)
AddFrom(x, y, b, i, carry) ==
    IF i > Len(x) /\ i > Len(y) THEN (IF carry = 0 THEN <<>> ELSE <<carry>>)
    ELSE LET s == Limb(x, i) + Limb(y, i) + carry
         IN <<s % b>> \o AddFrom(x, y, b, i + 1, s \div b)

NatAdd(x, y, b) == AddFrom(x, y, b, 1, 0)

RECURSIVE SubFrom(_, _, _, _, _)
SubFrom(x, y, b, i, borrow) ==
    IF i > Len(x) THEN <<>>
    ELSE LET d == Limb(x, i) - Limb(y, i) - borrow
         IN <<IF d < 0 THEN d + b ELSE d>>
            \o SubFrom(x, y, b, i + 1, IF d < 0 THEN 1 ELSE 0)

\* x - y, for x >= y
NatSub(x, y, b) == Trim(SubFrom(x, y, b, 1, 0))

RECURSIVE LessFrom(_, _, _)
LessFrom(x, y, i) ==
    IF i = 0 THEN FALSE
    ELSE IF x[i] # y[i] THEN x[i] < y[i]
    ELSE LessFrom(x, y, i - 1)

NatLess(x, y) == Len(x) < Len(y) \/ (Len(x) = Len(y) /\ LessFrom(x, y, Len(x)))

RECURSIVE MulSmallFrom(_, _, _, _, _)
MulSmallFrom(x, n, b, i, carry) ==
    IF i > Len(x) THEN NatOf(carry, b)
    ELSE LET p == x[i] * n + carry
         IN <<p % b>> \o MulSmallFrom(x, n, b, i + 1, p \div b)

\* x * n for a small n
NatMulSmall(x, n, b) == IF n = 0 THEN <<>> ELSE MulSmallFrom(x, n, b, 1, 0)

RECURSIVE Zeros(_)
Zeros(n) == IF n <= 0 THEN <<>> ELSE <<0>> \o Zeros(n - 1)

\* x * b
ShiftLimb(x) == IF x = <<>> THEN <<>> ELSE <<0>> \o x

RECURSIVE NatMulFrom(_, _, _, _)
NatMulFrom(x, y, b, i) ==
    IF i > Len(y) THEN <<>>
    ELSE NatAdd(NatMulSmall(x, y[i], b), ShiftLimb(NatMulFrom(x, y, b, i + 1)), b)

NatMul(x, y, b) == NatMulFrom(x, y, b, 1)

RECURSIVE DivSmallFrom(_, _, _, _, _, _)
DivSmallFrom(x, d, b, i, rem, q) ==
    IF i = 0 THEN [q |-> Trim(q), r |-> rem]
    ELSE DivSmallFrom(x, d, b, i - 1, (rem * b + x[i]) % d,
                      <<(rem * b + x[i]) \div d>> \o q)

\* quotient and remainder of x by a small d
NatDivSmall(x, d, b) == DivSmallFrom(x, d, b, Len(x), 0, <<>>)

NonZero(x) == \E i \in 1..Len(x) : x[i] # 0

RECURSIVE SmallLen(_, _)
SmallLen(n, r) == IF n = 0 THEN 0 ELSE 1 + SmallLen(n \div r, r)

\* the number of radix-r digits of x
RadixLen(x, r, k) == IF x = <<>> THEN 0 ELSE (Len(x) - 1) * k + SmallLen(x[Len(x)], r)

\* x * r^n
ShiftUp(x, n, r, k) ==
    IF x = <<>> THEN <<>>
    ELSE Zeros(n \div k) \o NatMulSmall(x, Pow(r, n % k), Pow(r, k))

\* x / r^n: the quotient, and whether anything is left over
WithSticky(d, low) == [q |-> d.q, sticky |-> NonZero(low) \/ d.r # 0]

ShiftDown(x, n, r, k) ==
    LET w == n \div k
    IN WithSticky(NatDivSmall(IF w >= Len(x) THEN <<>> ELSE SubSeq(x, w + 1, Len(x)),
                              Pow(r, n % k), Pow(r, k)),
                  SubSeq(x, 1, IF w < Len(x) THEN w ELSE Len(x)))

RECURSIVE ZeroLimbs(_)
ZeroLimbs(x) == IF x # <<>> /\ x[1] = 0 THEN 1 + ZeroLimbs(Tail(x)) ELSE 0

RECURSIVE SmallZeros(_, _)
SmallZeros(n, r) == IF n % r = 0 THEN 1 + SmallZeros(n \div r, r) ELSE 0

\* the number of zero digits x ends with (x > 0)
TrailingZeros(x, r, k) == LET w == ZeroLimbs(x) IN w * k + SmallZeros(x[w + 1], r)

\* x (with something more below its last digit when sticky) cut to at most p
\* digits, rounding half to even: [c, e] with x ~ c * r^e
\* the rounded coefficient c of n digits cut, when rounding up carried into
\* one digit more
RoundCarry(c, n, p, r, k) ==
    IF RadixLen(c, r, k) > p
    THEN [c |-> NatDivSmall(c, r, Pow(r, k)).q, e |-> n + 1]
    ELSE [c |-> c, e |-> n]

\* d.q with the digit d.r cut below it, and rest saying whether more is below
RoundDigit(d, rest, n, p, r, k) ==
    RoundCarry(IF 2 * d.r > r \/ (2 * d.r = r /\ (rest \/ d.q[1] % 2 = 1))
               THEN NatAdd(d.q, <<1>>, Pow(r, k))
               ELSE d.q,
               n, p, r, k)

RoundCut(cut, n, p, r, k, sticky) ==
    RoundDigit(NatDivSmall(cut.q, r, Pow(r, k)), sticky \/ cut.sticky, n, p, r, k)

RoundHalfEven(x, p, r, k, sticky) ==
    IF RadixLen(x, r, k) <= p THEN [c |-> x, e |-> 0]
    ELSE RoundCut(ShiftDown(x, RadixLen(x, r, k) - p - 1, r, k), RadixLen(x, r, k) - p,
                  p, r, k, sticky)

\* x cut by n digits, rounding half up (away from zero)
HalfUpDigit(d, r, k) == IF 2 * d.r >= r THEN NatAdd(d.q, <<1>>, Pow(r, k)) ELSE d.q

RoundHalfUp(x, n, r, k) ==
    IF n <= 0 THEN ShiftUp(x, 0 - n, r, k)
    ELSE HalfUpDigit(NatDivSmall(ShiftDown(x, n - 1, r, k).q, r, Pow(r, k)), r, k)

(***************************************************************************)
(* Python's Decimal: sign, coefficient and exponent, with the default      *)
(* context of the decimal module: every arithmetic result is rounded       *)
(* half-even to DecimalPrecision significant digits.                       *)
(***************************************************************************)
DecimalPrecision == 28

Dec(n, e) == [neg |-> n < 0, c |-> NatOf(IF n < 0 THEN 0 - n ELSE n, 10000), e |-> e]

\* the decimal (hi * 10^8 + lo) * 10^e, for coefficients of up to 16 digits
DecLong(hi, lo, e) ==
    [neg |-> FALSE,
     c |-> Trim(SubSeq(NatOf(lo, 10000) \o Zeros(2), 1, 2) \o NatOf(hi, 10000)),
     e |-> e]

DecZero == Dec(0, 0)

\* the same value with a coefficient that does not end in 0
DecNorm(d) ==
    IF d.c = <<>> THEN DecZero
    ELSE LET z == TrailingZeros(d.c, 10, 4)
         IN [neg |-> d.neg, c |-> ShiftDown(d.c, z, 10, 4).q, e |-> d.e + z]

WithRounded(d, r) == [neg |-> d.neg, c |-> r.c, e |-> d.e + r.e]

\* the rounding the context applies to every arithmetic result
ContextRound(d) == WithRounded(d, RoundHalfEven(d.c, DecimalPrecision, 10, 4, FALSE))

DecMulExact(x, y) ==
    [neg |-> x.neg # y.neg, c |-> NatMul(x.c, y.c, 10000), e |-> x.e + y.e]

\* x + y for x, y >= 0
DecAddExact(x, y) ==
    LET e == IF x.e < y.e THEN x.e ELSE y.e
    IN [neg |-> FALSE,
        c |-> NatAdd(ShiftUp(x.c, x.e - e, 10, 4), ShiftUp(y.c, y.e - e, 10, 4), 10000),
        e |-> e]

\* x / 10^n
DecDivPow10Exact(x, n) == [x EXCEPT !.e = x.e - n]

\* Decimal.__mul__, Decimal.__add__, and Decimal.__truediv__ by 10^n
DecMul(x, y) == ContextRound(DecMulExact(x, y))
DecAdd(x, y) == ContextRound(DecAddExact(x, y))
DecDivPow10(x, n) == ContextRound(DecDivPow10Exact(x, n))

\* x < y for x, y >= 0
DecLess(x, y) ==
    LET e == IF x.e < y.e THEN x.e ELSE y.e
    IN NatLess(ShiftUp(x.c, x.e - e, 10, 4), ShiftUp(y.c, y.e - e, 10, 4))

\* x - y for x >= y >= 0
DecSub(x, y) ==
    LET e == IF x.e < y.e THEN x.e ELSE y.e
    IN DecNorm([neg |-> FALSE,
                c |-> NatSub(ShiftUp(x.c, x.e - e, 10, 4), ShiftUp(y.c, y.e - e, 10, 4),
                             10000),
                e |-> e])

\* max(x, Decimal("0"))
DecMax0(x) == IF x.neg THEN DecZero ELSE x

\* Decimal.quantize(Decimal("1e-places"), rounding=ROUND_HALF_UP) for x >= 0
QuantizeHalfUp(x, places) ==
    [neg |-> FALSE, c |-> RoundHalfUp(x.c, (0 - places) - x.e, 10, 4), e |-> 0 - places]

(***************************************************************************)
(* IEEE 754 binary64, the float of Python and the double of the ledger     *)
(* store: m * 2^e with m odd (or 0), m below 2^DoublePrecision.  Only      *)
(* values >= 0 in the normal range occur.                                  *)
(***************************************************************************)
DoublePrecision == 53

DoubleZero == [m |-> <<>>, e |-> 0]

DoubleNorm(m, e) ==
    IF m = <<>> THEN DoubleZero
    ELSE LET z == TrailingZeros(m, 2, 12)
         IN [m |-> ShiftDown(m, z, 2, 12).q, e |-> e + z]

\* a base-10 coefficient in base 2
RECURSIVE ToBase2(_)
ToBase2(x) ==
    IF x = <<>> THEN <<>>
    ELSE NatAdd(NatMulSmall(ToBase2(Tail(x)), 10000, 4096), NatOf(x[1], 4096), 4096)

RECURSIVE TimesPow10(_, _)
TimesPow10(x, n) == IF n = 0 THEN x ELSE TimesPow10(NatMulSmall(x, 10, 4096), n - 1)

\* x / 10^n: the quotient, and whether anything is left over
RECURSIVE OverPow10(_, _, _)
OverPow10Step(d, n, sticky) == OverPow10(d.q, n - 1, sticky \/ d.r # 0)

OverPow10(x, n, sticky) ==
    IF n = 0 THEN [q |-> x, sticky |-> sticky]
    ELSE OverPow10Step(NatDivSmall(x, 10, 4096), n, sticky)

\* float(d) for a Decimal d >= 0: the nearest double, ties to even
\* the double r.c * 2^(r.e + e)
DoubleOf(r, e) == DoubleNorm(r.c, r.e + e)

\* the double nearest to q * 2^e, ties to even
DoubleRound(q, e) == DoubleOf(RoundHalfEven(q.q, DoublePrecision, 2, 12, q.sticky), e)

\* bits kept below the binary point while dividing by a power of ten
GuardBits(d) == 64 + 4 * (0 - d.e)

ToDouble(d) ==
    IF d.c = <<>> THEN DoubleZero
    ELSE IF d.e >= 0
    THEN DoubleRound([q |-> TimesPow10(ToBase2(d.c), d.e), sticky |-> FALSE], 0)
    ELSE DoubleRound(OverPow10(ShiftUp(ToBase2(d.c), GuardBits(d), 2, 12), 0 - d.e, FALSE),
                     0 - GuardBits(d))

\* a >= b
DoubleGe(a, b) ==
    LET e == IF a.e < b.e THEN a.e ELSE b.e
    IN ~NatLess(ShiftUp(a.m, a.e - e, 2, 12), ShiftUp(b.m, b.e - e, 2, 12))

\* a - b for a >= b: the exact difference, rounded to nearest, ties to even
DoubleSub(a, b) ==
    LET e == IF a.e < b.e THEN a.e ELSE b.e
    IN DoubleRound([q |-> NatSub(ShiftUp(a.m, a.e - e, 2, 12), ShiftUp(b.m, b.e - e, 2, 12),
                                 4096),
                    sticky |-> FALSE],
                   e)

(***************************************************************************)
(* Values.                                                                 *)
(***************************************************************************)
NoTok == [a |-> 0, g |-> 0]     \* None as access token / refresh token
NoExp == 0                      \* None as expires_at
NoQuar == 0                     \* None as quarantine_until
AuthTypes == {"kiro_desktop", "aws_sso_oidc"}

NoActive == [key |-> 0, tok |-> NoTok, exp |-> NoExp, rt |-> NoTok, typ |-> "kiro_desktop"]
NoCall == [op |-> "none", att |-> 0, stage |-> 0, tried |-> {}, sent |-> 0, bound |-> 0,
           boundQuar |-> FALSE]
NoRet == [task |-> 0, op |-> "none", kind |-> "none", tok |-> NoTok, bound |-> 0,
          boundQuar |-> FALSE, rotated |-> FALSE, untried |-> 0]
NoSel == [acct |-> 0, quar |-> FALSE, others |-> FALSE, skipped |-> FALSE]

(***************************************************************************)
(* The manager state m that the operations below transform:                *)
(*   pool, rr, act, store  the fields of KiroAuthManager                   *)
(*   key                   the calling task's _request_account_key         *)
(*   now                   the clock                                       *)
(*   sel                   index of the account the last selection chose   *)
(*   gsel                  observation of that selection                   *)
(***************************************************************************)
Min(S) == CHOOSE x \in S : \A y \in S : x <= y

\* kiro/auth.py _find_account_by_key: index of the first account with that key, 0 = None
_find_account_by_key(m, key) ==
    IF key = 0 THEN 0
    ELSE LET hits == {i \in 1..Len(m.pool) : m.pool[i].key = key}
         IN IF hits = {} THEN 0 ELSE Min(hits)

\* Variant: quarantine is ignored.
EligibleAlways(account, t) == TRUE

\* kiro/auth.py _is_account_eligible
_is_account_eligible(account, t) ==
    IF account.quar = NoQuar THEN TRUE ELSE account.quar <= t

\* Variant: the search for an eligible account starts at the head of the pool.
SelectFromHead(m) ==
    [m EXCEPT !.rr = 0, !.sel = 1]

\* Variant: when no account is eligible the next one is returned with every
\* quarantine left in place.
SweepKeepsQuarantine(m) ==
    LET total == Len(m.pool)
        idx(i) == (m.rr + i) % total
        found == {i \in 1..total : _is_account_eligible(m.pool[idx(i) + 1], m.now)}
        pick == IF found # {} THEN idx(Min(found)) ELSE idx(1)
    IN [m EXCEPT !.rr = pick, !.sel = pick + 1]

\* kiro/auth.py _select_next_account_locked (pool not empty)
_select_next_account_locked(m) ==
    LET total == Len(m.pool)
        idx(i) == (m.rr + i) % total
        found == {i \in 1..total : _is_account_eligible(m.pool[idx(i) + 1], m.now)}
    IN IF found # {}
       THEN [m EXCEPT !.rr = idx(Min(found)), !.sel = idx(Min(found)) + 1]
       ELSE LET after == (m.rr + total) % total
                nxt == (after + 1) % total
            IN [m EXCEPT !.pool = [i \in 1..total |-> [m.pool[i] EXCEPT !.quar = NoQuar]],
                         !.rr = nxt, !.sel = nxt + 1]

\* What is observed of a selection: the chosen account, whether it was in
\* quarantine when chosen, whether every other account was too, and whether
\* some other account was.
InQuarantine(account, t) == account.quar # NoQuar /\ t < account.quar

ObserveSelection(before, after) ==
    [after EXCEPT !.gsel =
        [acct |-> after.sel,
         quar |-> InQuarantine(before.pool[after.sel], before.now),
         others |-> \A i \in 1..Len(before.pool) :
                        i # after.sel => InQuarantine(before.pool[i], before.now),
         skipped |-> \E i \in 1..Len(before.pool) :
                        i # after.sel /\ InQuarantine(before.pool[i], before.now)]]

\* Variant: the request's binding is ignored, every call selects anew.
SelectIgnoringBinding(m, force_next) ==
    IF Len(m.pool) = 0 THEN [m EXCEPT !.sel = 0]
    ELSE LET s == _select_next_account_locked(m)
         IN ObserveSelection(m, [s EXCEPT !.key = s.pool[s.sel].key])

\* kiro/auth.py _get_or_select_request_account_locked; sel = 0 is None
_get_or_select_request_account_locked(m, force_next) ==
    IF Len(m.pool) = 0 THEN [m EXCEPT !.sel = 0]
    ELSE LET cur == _find_account_by_key(m, m.key)
         IN IF ~force_next /\ cur # 0 /\ _is_account_eligible(m.pool[cur], m.now)
            THEN ObserveSelection(m, [m EXCEPT !.sel = cur])
            ELSE LET s == _select_next_account_locked(m)
                 IN ObserveSelection(m, [s EXCEPT !.key = s.pool[s.sel].key])

\* kiro/auth.py _set_active_account
_set_active_account(m, account) ==
    [m EXCEPT !.act = [key |-> account.key, tok |-> account.tok, exp |-> account.exp,
                       rt |-> account.rt, typ |-> account.typ]]

\* kiro/auth.py _sync_active_account_state
_sync_active_account_state(m) ==
    LET i == _find_account_by_key(m, m.act.key)
    IN IF m.act.key = 0 \/ i = 0 THEN m
       ELSE [m EXCEPT !.pool[i] = [key |-> m.pool[i].key, tok |-> m.act.tok,
                                   exp |-> m.act.exp, rt |-> m.act.rt,
                                   typ |-> m.act.typ, quar |-> m.pool[i].quar]]

\* Variant: a failed account is not put in quarantine.
MarkNothing(m) == m

\* kiro/auth.py _mark_current_account_unhealthy_locked
_mark_current_account_unhealthy_locked(m) ==
    LET i == _find_account_by_key(m, m.key)
    IN IF i = 0 THEN m
       ELSE [m EXCEPT !.pool[i].quar = m.now + DEFAULT_ACCOUNT_QUARANTINE_SECONDS]

\* kiro/auth.py _mark_current_account_healthy_locked
_mark_current_account_healthy_locked(m) ==
    LET i == _find_account_by_key(m, m.key)
    IN IF i = 0 THEN m ELSE [m EXCEPT !.pool[i].quar = NoQuar]

\* Variant: every token counts as expiring soon.
ExpiringSoonAlways(m) == TRUE

\* kiro/auth.py is_token_expiring_soon
is_token_expiring_soon(m) ==
    IF m.act.exp = NoExp THEN TRUE
    ELSE m.act.exp <= m.now + TOKEN_REFRESH_THRESHOLD

\* Variant: a token within the refresh threshold counts as expired.
ExpiredWithinThreshold(m) == is_token_expiring_soon(m)

\* kiro/auth.py is_token_expired
is_token_expired(m) ==
    IF m.act.exp = NoExp THEN TRUE ELSE m.now >= m.act.exp

\* self._sqlite_db or self._auth_source == "mongodb": the pool is loaded from a KV store
DbBacked(m) == Len(m.pool) > 0

\* kiro/auth.py _reload_active_account_from_sqlite_locked
_reload_active_account_from_sqlite_locked(m) ==
    IF ~DbBacked(m) \/ m.act.key = 0 THEN m
    ELSE IF ~m.store[m.act.key].present THEN m
    ELSE LET row == m.store[m.act.key]
             i == _find_account_by_key(m, m.act.key)
         IN IF i = 0 THEN m
            ELSE LET refreshed == [key |-> m.act.key, tok |-> row.tok, exp |-> row.exp,
                                   rt |-> row.rt, typ |-> m.pool[i].typ,
                                   quar |-> m.pool[i].quar]
                 IN _set_active_account([m EXCEPT !.pool[i] = refreshed], refreshed)

\* candidate_keys of _save_credentials_to_sqlite, in order, without the
\* fallback keys that name no account of the pool
SaveCandidates(m) ==
    LET first == IF m.act.key # 0 THEN <<m.act.key>> ELSE <<>>
        second == IF m.key # 0 /\ m.key # m.act.key THEN <<m.key>> ELSE <<>>
        head == first \o second
        rest == SelectSeq([i \in 1..Len(m.pool) |-> m.pool[i].key],
                          LAMBDA k : \A j \in 1..Len(head) : head[j] # k)
    IN head \o rest

\* kiro/auth.py _save_credentials_to_sqlite
_save_credentials_to_sqlite(m) ==
    IF ~DbBacked(m) THEN m
    ELSE LET cand == SaveCandidates(m)
             hits == {j \in 1..Len(cand) : m.store[cand[j]].present}
         IN IF hits = {} THEN m
            ELSE LET key == cand[Min(hits)]
                     written == [m EXCEPT !.store[key] =
                                    [present |-> TRUE, tok |-> m.act.tok,
                                     exp |-> m.act.exp, rt |-> m.act.rt],
                                 !.act.key = key]
                 IN _sync_active_account_state(written)

(***************************************************************************)
(* A refresh request and its response.  The issuance endpoint answers      *)
(*   "ok"    200 with accessToken, a new refreshToken, no expiresIn (3600) *)
(*   "short" 200 with accessToken, no refreshToken, a short expiresIn      *)
(*   "h400"  status 400          "h500"  another error status              *)
(*   "bad"   200 without accessToken (ValueError)                          *)
(*   "net"   no response: timeout or transport error (httpx.RequestError)  *)
(***************************************************************************)
Outcomes == {"ok", "short", "h400", "h500", "bad", "net"}

\* Variant: the response's token is installed, the expiry is left as it was.
TokenWithoutExpiry(m, o, rot, newgen) ==
    LET issued == [a |-> m.act.rt.a, g |-> newgen]
        upd == [m EXCEPT !.act.tok = issued,
                         !.act.rt = IF rot THEN issued ELSE m.act.rt]
    IN _save_credentials_to_sqlite(upd)

\* the 200 branch of _refresh_token_kiro_desktop / _do_aws_sso_oidc_refresh
ApplyRefreshResponse(m, o, rot, newgen) ==
    LET expires_in == IF o = "short" THEN ShortExpiresIn ELSE DefaultExpiresIn
        issued == [a |-> m.act.rt.a, g |-> newgen]
        upd == [m EXCEPT !.act.tok = issued,
                         !.act.rt = IF rot THEN issued ELSE m.act.rt,
                         !.act.exp = m.now + expires_in - ExpiryBuffer]
    IN _save_credentials_to_sqlite(upd)

\* Result of running a call up to its next suspension point:
\*   st = "await" a refresh request was sent, "ret" a token is returned,
\*   "raise" an error is raised to the caller
Result(m, c, st, tok) == [m |-> m, c |-> c, st |-> st, tok |-> tok]

\* _refresh_token_request up to its POST: the request is sent
SendRefresh(m, c) ==
    Result(m, [c EXCEPT !.sent = c.sent + 1,
                        !.tried = c.tried \cup {m.act.key}], "await", NoTok)

\* the return paths of get_access_token (lines 1332-1334, 1346-1348, 1367-1369, 1393-1395)
ReturnToken(m, c) ==
    LET done == _sync_active_account_state(_mark_current_account_healthy_locked(m))
    IN Result(done, c, "ret", done.act.tok)

\* kiro/auth.py get_access_token, one pass of the loop body up to the await
\* of _refresh_token_request (lines 1325-1352)
RECURSIVE get_access_token_attempt(_, _)
get_access_token_attempt(m, c) ==
    LET s == _get_or_select_request_account_locked(m, c.att > 0)
        a == IF s.sel # 0 THEN _set_active_account(s, s.pool[s.sel]) ELSE s
    IN IF a.act.tok # NoTok /\ ~is_token_expiring_soon(a)
       THEN ReturnToken(a, c)
       ELSE IF DbBacked(a) /\ is_token_expiring_soon(a)
            THEN LET r == _reload_active_account_from_sqlite_locked(a)
                 IN IF r.act.tok # NoTok /\ ~is_token_expiring_soon(r)
                    THEN ReturnToken(r, c)
                    ELSE SendRefresh(r, c)
            ELSE SendRefresh(a, c)

\* Variant: the loop makes twice as many passes and one more.
AttemptsTwicePool(m) == 2 * Len(m.pool) + 1

\* account_attempts = max(len(self._account_pool), 1)
account_attempts(m) == IF Len(m.pool) > 1 THEN Len(m.pool) ELSE 1

\* the "continue" / "raise" at the end of a failed pass (lines 1375-1405)
RotateOrRaise(m, c) ==
    IF Len(m.pool) > 1
    THEN LET q == _mark_current_account_unhealthy_locked(m)
         IN IF c.att + 1 < account_attempts(q)
            THEN get_access_token_attempt(q, [c EXCEPT !.att = c.att + 1, !.stage = 1])
            ELSE Result(q, c, "raise", NoTok)
    ELSE Result(m, c, "raise", NoTok)

\* kiro/auth.py get_access_token from the response of the refresh request on
\* (lines 1353-1405), with _refresh_token_aws_sso_oidc's retry (lines 1193-1205)
get_access_token_resume(m, c, o, rot, newgen) ==
    IF o \in {"ok", "short"}
    THEN ReturnToken(ApplyRefreshResponse(m, o, rot, newgen), c)
    ELSE IF o = "h400" /\ m.act.typ = "aws_sso_oidc" /\ c.stage = 1 /\ DbBacked(m)
    THEN SendRefresh(_reload_active_account_from_sqlite_locked(m), [c EXCEPT !.stage = 2])
    ELSE IF o = "h400" /\ DbBacked(m)
    THEN IF m.act.tok # NoTok /\ ~is_token_expired(m)
         THEN ReturnToken(m, c)
         ELSE RotateOrRaise(m, c)
    ELSE IF o \in {"h500", "h400", "bad"}
    THEN RotateOrRaise(m, c)
    ELSE Result(m, c, "raise", NoTok)

\* kiro/auth.py force_refresh up to the await of _refresh_token_request
force_refresh_begin(m, c) == SendRefresh(m, c)

\* kiro/auth.py force_refresh from the response on
force_refresh_resume(m, c, o, rot, newgen) ==
    IF o \in {"ok", "short"}
    THEN LET r == ApplyRefreshResponse(m, o, rot, newgen)
         IN Result(r, c, "ret", r.act.tok)
    ELSE IF o = "h400" /\ m.act.typ = "aws_sso_oidc" /\ c.stage = 1 /\ DbBacked(m)
    THEN SendRefresh(_reload_active_account_from_sqlite_locked(m), [c EXCEPT !.stage = 2])
    ELSE Result(m, c, "raise", NoTok)

(***************************************************************************)
(* The request tasks and their environment.                                *)
(***************************************************************************)
ManagerState(t) ==
    [pool |-> pool, rr |-> rr, act |-> active, store |-> store, key |-> reqKey[t],
     now |-> now, sel |-> 0, gsel |-> lastSel]

\* What a request has seen of its tokens: the account of the first token
\* get_access_token returned to it, and whether every later one was of that
\* account.
ObserveRequest(q, r) ==
    LET got == r.st = "ret" /\ r.c.op = "gat"
    IN [first |-> IF got /\ q.first = 0 THEN r.tok.a ELSE q.first,
        same |-> q.same /\ (got /\ q.first # 0 => r.tok.a = q.first)]

\* A call as it starts: the account the request is bound to, and whether that
\* account is in quarantine.
StartCall(t, op) ==
    LET i == _find_account_by_key(ManagerState(t), reqKey[t])
    IN [NoCall EXCEPT !.op = op, !.stage = 1, !.bound = reqKey[t],
                      !.boundQuar = i # 0 /\ InQuarantine(pool[IF i = 0 THEN 1 ELSE i], now)]

\* What is recorded of the refresh traffic: the requests sent, the writes of
\* other processes, whether force_refresh was called, and the first token a
\* refresh installed with the default lifetime (with the number of requests
\* sent up to then).
NoHist == [issued |-> 0, ext |-> 0, forced |-> FALSE, good |-> NoTok, at |-> 0]

\* The state after task t's call has run up to its next suspension point.
Continue(t, r, h) ==
    /\ pool' = r.m.pool
    /\ rr' = r.m.rr
    /\ active' = r.m.act
    /\ store' = r.m.store
    /\ lastSel' = r.m.gsel
    /\ reqKey' = [reqKey EXCEPT ![t] = r.m.key]
    /\ seen' = [seen EXCEPT ![t] = ObserveRequest(seen[t], r)]
    /\ lock' = IF r.st = "await" THEN t ELSE 0
    /\ call' = IF r.st = "await" THEN r.c ELSE NoCall
    /\ ret' = IF r.st = "await" THEN ret
              ELSE [task |-> t, op |-> r.c.op,
                    kind |-> IF r.st = "ret" THEN "tok" ELSE "err",
                    tok |-> r.tok,
                    bound |-> r.c.bound, boundQuar |-> r.c.boundQuar,
                    rotated |-> r.c.att > 0,
                    untried |-> IF r.st = "raise" /\ r.c.op = "gat"
                                THEN Cardinality({i \in 1..Len(r.m.pool) :
                                                     r.m.pool[i].key \notin r.c.tried})
                                ELSE 0]
    /\ hist' = [h EXCEPT !.issued = h.issued + (r.c.sent - call.sent)]

\* Task t calls get_access_token: it takes the lock and runs to the first
\* suspension point or to its return.
CallGetAccessToken(t) ==
    /\ lock = 0 /\ calls < MaxCalls
    /\ calls' = calls + 1
    /\ Continue(t, get_access_token_attempt(ManagerState(t), StartCall(t, "gat")), hist)
    /\ UNCHANGED <<now, gen, nonAuthVars>>

\* Task t calls force_refresh (the HTTP engine does after a 403).
CallForceRefresh(t) ==
    /\ lock = 0 /\ calls < MaxCalls
    /\ calls' = calls + 1
    /\ Continue(t, force_refresh_begin(ManagerState(t), StartCall(t, "fr")),
                [hist EXCEPT !.forced = TRUE])
    /\ UNCHANGED <<now, gen, nonAuthVars>>

\* The account a refresh request is for: the one whose refresh secret it carries.
Issuer(m) == m.act.rt.a

\* The issuance endpoint answers the refresh request of task t.
RefreshResponse(t) ==
    /\ lock = t
    /\ \E o \in Outcomes :
         /\ LET m == ManagerState(t)
                rot == o = "ok"
                newgen == gen[Issuer(m)] + 1
                r == IF call.op = "gat"
                     THEN get_access_token_resume(m, call, o, rot, newgen)
                     ELSE force_refresh_resume(m, call, o, rot, newgen)
                h == IF o = "ok" /\ hist.good = NoTok
                     THEN [hist EXCEPT !.good = r.m.act.tok, !.at = hist.issued]
                     ELSE hist
            IN /\ Continue(t, r, h)
               /\ gen' = IF o \in {"ok", "short"}
                         THEN [gen EXCEPT ![Issuer(m)] = newgen] ELSE gen
    /\ UNCHANGED <<now, calls, nonAuthVars>>

\* Time passes.
Tick ==
    /\ now < Now0 + MaxTicks * TickSeconds
    /\ now' = now + TickSeconds
    /\ UNCHANGED <<pool, rr, active, store, lock, reqKey, call, ret, seen, calls, gen, hist,
                   lastSel, nonAuthVars>>

\* Another process (kiro-cli) refreshes account k and writes its row.
ExternalWrite(k) ==
    /\ k \in 1..Len(pool) /\ hist.ext < MaxExternal /\ store[k].present
    /\ LET issued == [a |-> store[k].rt.a, g |-> gen[store[k].rt.a] + 1]
       IN /\ store' = [store EXCEPT ![k] = [present |-> TRUE, tok |-> issued, rt |-> issued,
                                            exp |-> now + DefaultExpiresIn - ExpiryBuffer]]
          /\ gen' = [gen EXCEPT ![issued.a] = issued.g]
    /\ hist' = [hist EXCEPT !.ext = hist.ext + 1]
    /\ UNCHANGED <<now, pool, rr, active, lock, reqKey, call, ret, seen, calls, lastSel,
                   nonAuthVars>>

\* The request task t is cancelled (its client disconnected) while it awaits
\* the response of its refresh request: CancelledError is raised at the await
\* of client.post, no except clause of the call catches it, and the lock is
\* released on the way out.  The endpoint answers the request all the same;
\* ret.tok records the token it issued, if it issued one.
CancelRequest(t) ==
    /\ lock = t
    /\ \E o \in Outcomes :
         LET a == Issuer(ManagerState(t))
             issued == IF o \in {"ok", "short"} THEN [a |-> a, g |-> gen[a] + 1] ELSE NoTok
         IN /\ gen' = IF issued # NoTok THEN [gen EXCEPT ![a] = issued.g] ELSE gen
            /\ ret' = [NoRet EXCEPT !.task = t, !.op = call.op, !.kind = "cancelled",
                                    !.tok = issued, !.bound = call.bound]
    /\ lock' = 0
    /\ call' = NoCall
    /\ UNCHANGED <<now, pool, rr, active, store, reqKey, seen, calls, hist, lastSel,
                   nonAuthVars>>

(***************************************************************************)
(* The state after construction: the pool as loaded from the store (or no  *)
(* pool, the credentials given directly), cursor -1, the first account     *)
(* active.                                                                 *)
(***************************************************************************)
InitExpiries == {NoExp, Now0 + TickSeconds, Now0 + TOKEN_REFRESH_THRESHOLD + TickSeconds}

\* the mechanisms of the accounts of a pool: all of one, or alternating
TypePatterns == AuthTypes \cup {"mixed"}
TypeOf(pattern, k) ==
    IF pattern # "mixed" THEN pattern
    ELSE IF k % 2 = 1 THEN "kiro_desktop" ELSE "aws_sso_oidc"

InitAccount(k, e, ty) ==
    [key |-> k, tok |-> IF e = NoExp THEN NoTok ELSE [a |-> k, g |-> 0], exp |-> e,
     rt |-> [a |-> k, g |-> 0], typ |-> ty, quar |-> NoQuar]

AuthInit ==
    /\ now = Now0
    /\ \E n \in 0..MaxPool, e \in InitExpiries, tys \in TypePatterns, ty0 \in AuthTypes :
            /\ (n = 0 => e = NoExp /\ tys = "kiro_desktop")
            /\ (n = 1 => tys # "mixed")
            /\ pool = [k \in 1..n |-> InitAccount(k, e, TypeOf(tys, k))]
            /\ store = [k \in 1..n |-> [present |-> TRUE, tok |-> pool[k].tok,
                                         exp |-> pool[k].exp, rt |-> pool[k].rt]]
            /\ active = IF n = 0
                        THEN [NoActive EXCEPT !.rt = [a |-> 1, g |-> 0], !.typ = ty0]
                        ELSE [key |-> 1, tok |-> pool[1].tok, exp |-> pool[1].exp,
                              rt |-> pool[1].rt, typ |-> pool[1].typ]
            /\ (n > 0 => ty0 = "kiro_desktop")
    /\ rr = -1
    /\ lock = 0
    /\ reqKey = [t \in Tasks |-> 0]
    /\ call = NoCall
    /\ ret = NoRet
    /\ seen = [t \in Tasks |-> [first |-> 0, same |-> TRUE]]
    /\ calls = 0
    /\ gen = [k \in 1..(IF MaxPool > 1 THEN MaxPool ELSE 1) |-> 0]
    /\ hist = NoHist
    /\ lastSel = NoSel

(***************************************************************************)
(* Forced selections in a row: _get_or_select_request_account_locked with  *)
(* force_next = True, as get_access_token calls it under the lock when it  *)
(* rotates, on a pool in which no account is put in quarantine.            *)
(***************************************************************************)
RingQuiet == picks = <<>>

RingInit ==
    /\ now = Now0
    /\ \E n \in 1..MaxRing, e \in InitExpiries, tys \in TypePatterns :
            /\ (n = 1 => tys # "mixed")
            /\ pool = [k \in 1..n |-> InitAccount(k, e, TypeOf(tys, k))]
            /\ store = [k \in 1..n |-> [present |-> TRUE, tok |-> pool[k].tok,
                                         exp |-> pool[k].exp, rt |-> pool[k].rt]]
            /\ active = [key |-> 1, tok |-> pool[1].tok, exp |-> pool[1].exp,
                         rt |-> pool[1].rt, typ |-> pool[1].typ]
    /\ rr = -1
    /\ lock = 0
    /\ reqKey = [t \in Tasks |-> 0]
    /\ call = NoCall
    /\ ret = NoRet
    /\ seen = [t \in Tasks |-> [first |-> 0, same |-> TRUE]]
    /\ calls = 0
    /\ gen = [k \in 1..MaxRing |-> 0]
    /\ hist = NoHist
    /\ lastSel = NoSel
    /\ picks = <<>>

\* task t selects with force_next = True
SelectNext(t) ==
    /\ lock = 0
    /\ Len(picks) < MaxSelections
    /\ \E s \in {_get_or_select_request_account_locked(ManagerState(t), TRUE)} :
         /\ pool' = s.pool
         /\ rr' = s.rr
         /\ lastSel' = s.gsel
         /\ reqKey' = [reqKey EXCEPT ![t] = s.key]
         /\ picks' = Append(picks, s.sel)
    /\ UNCHANGED <<now, active, store, lock, call, ret, seen, calls, gen, hist, nonAuthRingVars>>

RingNext ==
    \/ \E t \in Tasks : SelectNext(t)
    \/ Tick

(***************************************************************************)
(* get_access_token on a pool of device-oauth accounts loaded from a KV    *)
(* store, with every answer of the issuance endpoint recorded.             *)
(***************************************************************************)
RotationQuiet == answers = <<>>

\* the milliseconds past the second at which an answer may come
Fractions == {0, 500}

\* expires_in of a 200 answer: result.get("expiresIn", 3600)
ExpiresIn(o) == IF o = "short" THEN ShortExpiresIn ELSE DefaultExpiresIn

\* Variant: expires_at keeps the milliseconds with either mechanism.
ExpiresAtExact(typ, at, frac, expires_in) ==
    at * 1000 + frac + (expires_in - ExpiryBuffer) * 1000

\* self._expires_at in milliseconds, as the two mechanisms compute it from
\* the clock at seconds at + frac milliseconds: _refresh_token_kiro_desktop
\* drops the part below the second (replace(microsecond=0)),
\* _do_aws_sso_oidc_refresh keeps it
ExpiresAt(typ, at, frac, expires_in) ==
    IF typ = "kiro_desktop"
    THEN (at + expires_in - ExpiryBuffer) * 1000
    ELSE at * 1000 + frac + (expires_in - ExpiryBuffer) * 1000

\* The issuance endpoint answers the refresh request of task t's
\* get_access_token, a 200 at one of the given milliseconds past the second.
AnswerRefresh(t, fractions) ==
    /\ lock = t
    /\ call.op = "gat"
    /\ \E o \in Outcomes :
       \E frac \in IF o \in {"ok", "short"} THEN fractions ELSE {0} :
       \E m \in {ManagerState(t)} :
       \E r \in {get_access_token_resume(m, call, o, o = "ok", gen[Issuer(m)] + 1)} :
         /\ Continue(t, r, IF o = "ok" /\ hist.good = NoTok
                           THEN [hist EXCEPT !.good = r.m.act.tok, !.at = hist.issued]
                           ELSE hist)
         /\ gen' = IF o \in {"ok", "short"}
                   THEN [gen EXCEPT ![Issuer(m)] = gen[Issuer(m)] + 1] ELSE gen
         /\ answers' = Append(answers,
                [call |-> calls, a |-> Issuer(m), o |-> o, at |-> now, frac |-> frac,
                 typ |-> m.act.typ, tok |-> m.act.tok, exp |-> m.act.exp,
                 quar |-> {i \in 1..Len(pool) : InQuarantine(pool[i], now)},
                 issued |-> IF o \in {"ok", "short"}
                            THEN [a |-> Issuer(m), g |-> gen[Issuer(m)] + 1] ELSE NoTok,
                 expires_at |-> IF o \in {"ok", "short"}
                                THEN ExpiresAt(m.act.typ, now, frac, ExpiresIn(o)) ELSE 0])
    /\ UNCHANGED <<now, calls, nonAuthRotationVars>>

\* the same with the clock read to the second
RotationResponse(t) == AnswerRefresh(t, {0})

RotationNext ==
    \/ \E t \in Tasks : calls < MaxRotationCalls /\ CallGetAccessToken(t)
    \/ \E t \in Tasks : RotationResponse(t)
    \/ Tick

RefreshNext ==
    \/ \E t \in Tasks : calls < MaxRefreshCalls /\ CallGetAccessToken(t)
    \/ \E t \in Tasks : AnswerRefresh(t, Fractions)
    \/ Tick

AuthNext ==
    \/ \E t \in Tasks : CallGetAccessToken(t)
    \/ \E t \in Tasks : CallForceRefresh(t)
    \/ \E t \in Tasks : RefreshResponse(t)
    \/ Tick

(***************************************************************************)
(* The upstream payload of a request (kiro_gateway/routes.py).  A profile  *)
(* identifier is written as the number of the account it belongs to, 0 is  *)
(* the empty profile_arn_for_payload.                                      *)
(***************************************************************************)
NoPayload == [built |-> FALSE, profile |-> 0]

PayloadInit == payload = [t \in Tasks |-> NoPayload]

\* auth_manager.profile_arn: the profile of the account in the active fields
profile_arn(act) == act.rt.a

\* profile_arn_for_payload of anthropic_messages and chat_completions
profile_arn_for_payload(act) ==
    IF act.typ = "kiro_desktop" /\ profile_arn(act) # 0 THEN profile_arn(act) ELSE 0

\* The handler of request task t builds its payload, before it asks the
\* manager for a token.
BuildPayload(t) ==
    /\ ~payload[t].built
    /\ payload' = [payload EXCEPT ![t] =
                      [built |-> TRUE, profile |-> profile_arn_for_payload(active)]]
    /\ UNCHANGED nonPayloadVars

\* the mechanism of the account a token belongs to
AccountType(a) == IF Len(pool) = 0 THEN active.typ ELSE pool[a].typ

\* Requests that build their payload and then send it with the token
\* get_access_token gives them.
PayloadNext ==
    \/ \E t \in Tasks : BuildPayload(t)
    \/ \E t \in Tasks : payload[t].built /\ CallGetAccessToken(t)
    \/ \E t \in Tasks : RefreshResponse(t)
    \/ Tick

(***************************************************************************)
(* The HTTP engine (kiro_gateway/http_client.py, request_with_retry), as   *)
(* its retry policy is specified and as its unit tests exercise it.  An    *)
(* upstream call ends in a response with status 200, 403, 429, 5xx or      *)
(* another 4xx, in a timeout, or in a transport error.                     *)
(***************************************************************************)
MAX_RETRIES == 3
BASE_RETRY_DELAY == 1
FIRST_TOKEN_MAX_RETRIES == 3

UpstreamResults == {"200", "403", "429", "500", "400", "timeout", "neterr"}

NoResult == [kind |-> "none", status |-> 0, attempts |-> 0]

\* an entry of hc_log: a request sent (with the retry counter and the token
\* it carries), what came back, a force_refresh, a sleep, a body frame
LogEntry(type, attempt, token, what, delay) ==
    [type |-> type, attempt |-> attempt, token |-> token, what |-> what, delay |-> delay]
Sent(attempt, refreshed) ==
    LogEntry("send", attempt, IF refreshed THEN "new" ELSE "cached", "", 0)
Came(what) == LogEntry("resp", 0, "", what, 0)
Refreshed == LogEntry("refresh", 0, "", "", 0)
Slept(delay) == LogEntry("sleep", 0, "", "", delay)
Frame == LogEntry("byte", 0, "", "", 0)

EngineInit ==
    /\ hc_state = "idle"
    /\ hc_stream = FALSE
    /\ hc_attempt = 0
    /\ hc_refreshed = FALSE
    /\ hc_log = <<>>
    /\ hc_result = NoResult

\* max_retries: the attempts allowed
RetryLimit(streaming) == IF streaming THEN FIRST_TOKEN_MAX_RETRIES ELSE MAX_RETRIES

\* the failures that are retried and counted
Retryable(o) == o \in {"429", "500", "timeout", "neterr"}

\* Variant: every failure waits the base delay.
BackoffConstant(streaming, o, attempt) == BASE_RETRY_DELAY

\* the delay before the next attempt, 0 for none
BackoffDelay(streaming, o, attempt) ==
    IF streaming /\ o = "timeout" THEN 0 ELSE BASE_RETRY_DELAY * Pow(2, attempt)

\* Variant: a 403 counts as an attempt.
CountedAlways(o) == TRUE

\* whether a failure counts against the retry counter
Counted(o) == Retryable(o)

\* Variant: exhaustion is always reported as 502.
ExhaustedAlways502(streaming, attempts) ==
    [kind |-> "raised", status |-> 502, attempts |-> attempts]

\* the HTTPException raised when the attempts are used up
Exhausted(streaming, attempts) ==
    [kind |-> "raised", status |-> IF streaming THEN 504 ELSE 502, attempts |-> attempts]

\* request_with_retry is called: the first request is sent
EngineStart(streaming) ==
    /\ hc_state = "idle"
    /\ hc_state' = "sending"
    /\ hc_stream' = streaming
    /\ hc_log' = <<Sent(0, FALSE)>>
    /\ UNCHANGED <<hc_attempt, hc_refreshed, hc_result, nonEngineVars>>

\* the upstream call ends with o: the engine returns, raises, or prepares
\* and sends the next request
EngineResponse(o) ==
    /\ hc_state = "sending"
    /\ \E next \in {hc_attempt + (IF Counted(o) THEN 1 ELSE 0)} :
       \E delay \in {BackoffDelay(hc_stream, o, hc_attempt)} :
         IF o = "403" /\ ~hc_refreshed
         THEN /\ hc_refreshed' = TRUE
              /\ hc_attempt' = next
              /\ hc_log' = hc_log \o <<Came(o), Refreshed, Sent(next, TRUE)>>
              /\ UNCHANGED <<hc_state, hc_result>>
         ELSE IF Retryable(o) /\ next < RetryLimit(hc_stream)
         THEN /\ hc_attempt' = next
              /\ hc_log' = hc_log \o <<Came(o)>>
                            \o (IF delay > 0 THEN <<Slept(delay)>> ELSE <<>>)
                            \o <<Sent(next, hc_refreshed)>>
              /\ UNCHANGED <<hc_state, hc_refreshed, hc_result>>
         ELSE IF Retryable(o)
         THEN /\ hc_attempt' = next
              /\ hc_log' = Append(hc_log, Came(o))
              /\ hc_state' = "done"
              /\ hc_result' = Exhausted(hc_stream, next)
              /\ UNCHANGED hc_refreshed
         ELSE /\ hc_log' = Append(hc_log, Came(o))
              /\ hc_state' = IF o = "200" /\ hc_stream THEN "body" ELSE "done"
              /\ hc_result' = [kind |-> "returned",
                               status |-> IF o = "200" THEN 200
                                          ELSE IF o = "403" THEN 403 ELSE 400,
                               attempts |-> hc_attempt]
              /\ UNCHANGED <<hc_attempt, hc_refreshed>>
    /\ UNCHANGED <<hc_stream, nonEngineVars>>

\* a frame of the streamed body is delivered to the client
EngineBodyFrame ==
    /\ hc_state = "body"
    /\ Cardinality({i \in 1..Len(hc_log) : hc_log[i].type = "byte"}) < MaxBodyBytes
    /\ hc_log' = Append(hc_log, Frame)
    /\ UNCHANGED <<hc_state, hc_stream, hc_attempt, hc_refreshed, hc_result, nonEngineVars>>

\* the streamed body ends, or fails after it has begun (read timeout,
\* transport error): nothing is sent again
EngineBodyEnds(failed) ==
    /\ hc_state = "body"
    /\ failed => \E i \in 1..Len(hc_log) : hc_log[i].type = "byte"
    /\ hc_state' = "done"
    /\ hc_log' = Append(hc_log, Came(IF failed THEN "body_error" ELSE "body_end"))
    /\ UNCHANGED <<hc_stream, hc_attempt, hc_refreshed, hc_result, nonEngineVars>>

EngineNext ==
    \/ \E streaming \in BOOLEAN : EngineStart(streaming)
    \/ \E o \in UpstreamResults : EngineResponse(o)
    \/ EngineBodyFrame
    \/ \E failed \in BOOLEAN : EngineBodyEnds(failed)

(***************************************************************************)
(* The Anthropic SSE encoder (kiro_gateway/anthropic_streaming.py).  An     *)
(* event is recorded with its type, its block index (-1 where it has none)  *)
(* and, for message_delta, its stop_reason.                                 *)
(***************************************************************************)
Event(type, index) == [type |-> type, index |-> index, stop |-> "none"]

\* a tool call first (variant of the mapping, used to test C23)
ToolCallsFirst(reason, tool_calls) ==
    IF reason = "tool_calls" \/ tool_calls > 0 THEN "tool_use"
    ELSE IF reason = "length" THEN "max_tokens"
    ELSE "end_turn"

\* kiro_gateway/anthropic_converters.py _finish_reason_to_stop_reason
_finish_reason_to_stop_reason(reason, tool_calls) ==
    IF reason = "length" THEN "max_tokens"
    ELSE IF reason = "tool_calls" \/ tool_calls > 0 THEN "tool_use"
    ELSE "end_turn"

\* What one item of openai_sse holds:
\*   kind "skip"      no "data:" prefix, empty, [DONE], or not JSON: passed over
\*   kind "malformed" JSON that is not an object of the expected shape:
\*                    reading it raises inside the try block
\*   kind "data"      a chunk with delta.content (text), delta.tool_calls
\*                    (tools of them) and choices[0].finish_reason (finish)
FinishReasons == {"none", "stop", "length", "tool_calls"}
Chunks ==
    [kind : {"data"}, text : BOOLEAN, tools : 0..MaxToolCalls, finish : FinishReasons]
    \cup [kind : {"skip", "malformed"}, text : {FALSE}, tools : {0}, finish : {"none"}]

\* the events of the loop "for tc in delta_tool_calls" from block index i on
RECURSIVE ToolBlocks(_, _)
ToolBlocks(i, n) ==
    IF n = 0 THEN <<>>
    ELSE <<Event("content_block_start", i + 1), Event("content_block_stop", i + 1)>>
         \o ToolBlocks(i + 1, n - 1)

StreamInit ==
    /\ content_block_index = 0
    /\ text_block_open = TRUE
    /\ tool_calls_seen = 0
    /\ finish_reason = "none"
    /\ events = <<>>
    /\ consumed = 0
    /\ spc = "new"

\* lines 46-70: message_start and the text block's content_block_start
StreamStart ==
    /\ spc = "new"
    /\ events' = <<Event("message_start", -1), Event("content_block_start", content_block_index)>>
    /\ spc' = "streaming"
    /\ UNCHANGED <<content_block_index, text_block_open, tool_calls_seen, finish_reason,
                   consumed, nonStreamVars>>

\* lines 139-144: an exception inside the try block
StreamFail ==
    /\ events' = Append(events, Event("error", -1))
    /\ spc' = "failed"
    /\ UNCHANGED <<content_block_index, text_block_open, tool_calls_seen, finish_reason>>

\* lines 73-137: one item of openai_sse is taken and handled
StreamChunk(c) ==
    /\ spc = "streaming" /\ consumed < MaxChunks
    /\ consumed' = consumed + 1
    /\ IF c.kind = "skip"
       THEN UNCHANGED <<content_block_index, text_block_open, tool_calls_seen, finish_reason,
                        events, spc>>
       ELSE IF c.kind = "malformed"
       THEN StreamFail
       ELSE /\ finish_reason' = IF c.finish # "none" THEN c.finish ELSE finish_reason
            /\ tool_calls_seen' = tool_calls_seen + c.tools
            /\ text_block_open' = (text_block_open /\ c.tools = 0)
            /\ content_block_index' = content_block_index + c.tools
            /\ events' = events
                 \o (IF c.text THEN <<Event("content_block_delta", content_block_index)>>
                     ELSE <<>>)
                 \o (IF c.tools > 0 /\ text_block_open
                     THEN <<Event("content_block_stop", content_block_index)>> ELSE <<>>)
                 \o ToolBlocks(content_block_index, c.tools)
            /\ spc' = spc
    /\ UNCHANGED nonStreamVars

\* openai_sse raises while the encoder waits for its next item
StreamUpstreamError ==
    /\ spc = "streaming"
    /\ StreamFail
    /\ UNCHANGED <<consumed, nonStreamVars>>

\* lines 146-164: openai_sse is exhausted
StreamEnd ==
    /\ spc = "streaming"
    /\ events' = events
         \o (IF text_block_open THEN <<Event("content_block_stop", content_block_index)>>
             ELSE <<>>)
         \o <<[type |-> "message_delta", index |-> -1,
               stop |-> _finish_reason_to_stop_reason(finish_reason, tool_calls_seen)],
              Event("message_stop", -1)>>
    /\ spc' = "ended"
    /\ UNCHANGED <<content_block_index, text_block_open, tool_calls_seen, finish_reason,
                   consumed, nonStreamVars>>

StreamNext ==
    \/ StreamStart
    \/ \E c \in Chunks : StreamChunk(c)
    \/ StreamUpstreamError
    \/ StreamEnd

(***************************************************************************)
(* Billing (kiro/billing.py) and the credit ledger (kiro/mongodb_store.py). *)
(***************************************************************************)
\* kiro/billing.py _quantize_decimal
_quantize_decimal(value, decimal_places) ==
    QuantizeHalfUp(value, IF decimal_places > 0 THEN decimal_places ELSE 0)

\* kiro/billing.py _extract_usage_tokens
_extract_usage_tokens(usage) ==
    [f \in DOMAIN usage |-> Dec(IF usage[f] > 0 THEN usage[f] ELSE 0, 0)]

\* kiro/billing.py calculate_charge_from_usage, for rows with prices >= 0
calculate_charge_from_usage(row, usage, enabled, decimal_places) ==
    IF ~enabled THEN DecZero
    ELSE LET tokens == _extract_usage_tokens(usage)
             subtotal == DecDivPow10(
                 DecAdd(DecAdd(DecAdd(DecMul(tokens.prompt_tokens, row.input_price_per_mtok),
                                      DecMul(tokens.completion_tokens,
                                             row.output_price_per_mtok)),
                               DecMul(tokens.cache_write_tokens,
                                      row.cache_write_price_per_mtok)),
                        DecMul(tokens.cache_hit_tokens, row.cache_hit_price_per_mtok)),
                 6)
             charged == DecMul(subtotal, row.billing_multiplier)
         IN _quantize_decimal(DecMax0(charged), decimal_places)

\* kiro/mongodb_store.py deduct_credits_atomic: the balance after, and the result
update_one(bal, amount_float) ==
    IF DoubleGe(bal, amount_float)
    THEN [balance |-> DoubleSub(bal, amount_float), ok |-> TRUE]
    ELSE [balance |-> bal, ok |-> FALSE]

deduct_credits_atomic(bal, amount, db_error) ==
    IF amount.c = <<>> \/ amount.neg THEN [balance |-> bal, ok |-> TRUE]
    ELSE IF db_error THEN [balance |-> bal, ok |-> FALSE]
    ELSE update_one(bal, ToDouble(amount))

\* The pricing rows, usages and settings explored.
PricingRows ==
    { [input_price_per_mtok |-> Dec(30, -1), output_price_per_mtok |-> Dec(140, -1),
       cache_write_price_per_mtok |-> Dec(375, -2), cache_hit_price_per_mtok |-> Dec(3, -1),
       billing_multiplier |-> Dec(11, -1)],
      [input_price_per_mtok |-> DecLong(50000000, 1, -16), output_price_per_mtok |-> Dec(0, 0),
       cache_write_price_per_mtok |-> Dec(0, 0), cache_hit_price_per_mtok |-> Dec(0, 0),
       billing_multiplier |-> DecLong(99999999, 99999998, -16)],
      [input_price_per_mtok |-> Dec(5, -1), output_price_per_mtok |-> Dec(25, -2),
       cache_write_price_per_mtok |-> Dec(0, 0), cache_hit_price_per_mtok |-> Dec(15, -1),
       billing_multiplier |-> Dec(1, 0)],
      [input_price_per_mtok |-> Dec(30, -1), output_price_per_mtok |-> Dec(140, -1),
       cache_write_price_per_mtok |-> Dec(0, 0), cache_hit_price_per_mtok |-> Dec(0, 0),
       billing_multiplier |-> Dec(-1, 0)] }

Usage(p, c, w, h) ==
    [prompt_tokens |-> p, completion_tokens |-> c, cache_write_tokens |-> w,
     cache_hit_tokens |-> h]

Usages == {Usage(0, 0, 0, 0), Usage(1, 0, 0, 0), Usage(1000, 500, 0, 0),
           Usage(1000, 500, 100, 200), Usage(3, 2, 0, 1)}

PlacesSettings == {6, 2, 0, -1}

InitialBalances == {Dec(1, -2), Dec(2, -2), Dec(1, 0)}

NoDeduct == [kind |-> "none", usage |-> Usage(0, 0, 0, 0), charge |-> DecZero,
             before |-> DoubleZero, exactBefore |-> DecZero]

BillInit ==
    /\ pricing \in PricingRows
    /\ billing_decimal_places \in PlacesSettings
    /\ billing_enabled \in BOOLEAN
    /\ exact \in InitialBalances
    /\ balance = ToDouble(exact)
    /\ lastDeduct = NoDeduct
    /\ deducts = 0

\* billing at rest: the first row, six places, enabled, a balance of 0.02
BillQuiet ==
    /\ BillInit
    /\ pricing.billing_multiplier = Dec(11, -1)
    /\ billing_decimal_places = 6 /\ billing_enabled /\ exact = Dec(2, -2)

\* kiro/billing.py deduct_credits_for_usage: "free" when nothing is charged,
\* "deducted" when the store updated the record, "insufficient" when
\* InsufficientCreditsError is raised
DeductCreditsForUsage(usage, db_error) ==
    /\ deducts < MaxDeducts
    /\ deducts' = deducts + 1
    /\ \E charge \in {calculate_charge_from_usage(pricing, usage, billing_enabled,
                                                   billing_decimal_places)} :
       \E r \in {deduct_credits_atomic(balance, charge, db_error)} :
       \E kind \in {IF charge.c = <<>> THEN "free"
                    ELSE IF r.ok THEN "deducted" ELSE "insufficient"} :
          /\ balance' = r.balance
          /\ exact' = IF kind = "deducted"
                      THEN (IF DecLess(exact, charge) THEN DecZero ELSE DecSub(exact, charge))
                      ELSE exact
          /\ lastDeduct' = [kind |-> kind, usage |-> usage, charge |-> charge,
                            before |-> balance, exactBefore |-> exact]
    /\ UNCHANGED <<pricing, billing_decimal_places, billing_enabled, nonBillVars>>

BillNext == \E usage \in Usages, db_error \in BOOLEAN : DeductCreditsForUsage(usage, db_error)

(***************************************************************************)
(* The request handlers (kiro_gateway/routes.py) and their upstream HTTP   *)
(* client.  A request is served by chat_completions ("chat"),              *)
(* anthropic_messages ("messages") or, as one item of a batch, by          *)
(* _run_anthropic_batch ("batch").                                         *)
(***************************************************************************)
Requests == 1..NRequests
Handlers == {"chat", "messages", "batch"}

NoRequest == [handler |-> "none", stream |-> FALSE, pc |-> "idle", client |-> "none",
              exit |-> "none"]

RouteInit == req = [r \in Requests |-> NoRequest]

\* the handler ends: exit says how
Exit(q, how, client) == [q EXCEPT !.pc = "done", !.exit = how, !.client = client]

\* The handler runs up to "await http_client.request_with_retry": the payload
\* is built (or refused, and nothing is created) and KiroHttpClient(...) is created.
RouteBegin(r, h, stream, valid) ==
    /\ req[r].pc = "idle"
    /\ h = "batch" => ~stream
    /\ req' = [req EXCEPT ![r] =
                 IF valid
                 THEN [handler |-> h, stream |-> stream, pc |-> "upstream",
                       client |-> "open", exit |-> "none"]
                 ELSE [handler |-> h, stream |-> stream, pc |-> "done",
                       client |-> "none", exit |-> "invalid"]]
    /\ UNCHANGED nonRouteVars

\* request_with_retry answers: a response with status 200, a response with
\* another status, or an exception
UpstreamOutcomes == {"200", "other", "raise"}

RouteUpstream(r, o) ==
    /\ req[r].pc = "upstream"
    /\ LET q == req[r]
           proceed == [q EXCEPT !.pc = IF q.stream THEN "streaming" ELSE "collect"]
       IN req' = [req EXCEPT ![r] =
            CASE q.handler = "chat" ->
                    IF o = "200" THEN proceed
                    ELSE IF o = "other" THEN Exit(q, "status", "closed")
                    ELSE Exit(q, "upstream_raised", "closed")
              [] q.handler = "messages" ->
                    IF o = "200" THEN proceed
                    ELSE IF o = "other" THEN Exit(q, "status", "closed")
                    ELSE Exit(q, "upstream_raised", q.client)
              [] q.handler = "batch" ->
                    IF o = "raise" THEN Exit(q, "upstream_raised", q.client)
                    ELSE proceed]
    /\ UNCHANGED nonRouteVars

\* collect_stream_response returns or raises
RouteCollected(r, raised) ==
    /\ req[r].pc = "collect"
    /\ LET q == req[r]
       IN req' = [req EXCEPT ![r] =
            IF ~raised THEN Exit(q, "completed", "closed")
            ELSE IF q.handler = "chat" THEN Exit(q, "collector_raised", "closed")
            ELSE Exit(q, "collector_raised", q.client)]
    /\ UNCHANGED nonRouteVars

\* the streamed body ends: the upstream stream is exhausted, raises mid-way,
\* or the client disconnects; the generator's finally block runs
StreamExits == {"completed", "stream_raised", "disconnected"}

RouteStreamEnds(r, how) ==
    /\ req[r].pc = "streaming"
    /\ req' = [req EXCEPT ![r] = Exit(req[r], how, "closed")]
    /\ UNCHANGED nonRouteVars

(***************************************************************************)
(* stream_wrapper of chat_completions, step by step.  The generator stands *)
(*   "await"     in "async for", waiting for stream_kiro_to_openai         *)
(*   "at_yield"  at "yield chunk", the frame handed to the server          *)
(*   "at_done"   at the yield of "data: [DONE]" in "except Exception"      *)
(*   "closed"    after its finally block                                   *)
(* The server sends the frame it was handed and asks for the next one; the *)
(* client has received a frame when that send is over.                     *)
(***************************************************************************)
ChunkKinds == {"role", "content", "usage"}
DONE == "[DONE]"

WrapperInit ==
    /\ wrapper = [pc |-> "await", pending |-> "", streaming_error |-> FALSE,
                  client_disconnected |-> FALSE, exit |-> "none", client |-> "open",
                  yielded |-> 0]
    /\ received = <<>>
    /\ connected = TRUE

\* the finally block: http_client.close(), the access log
Finally(w, how) == [w EXCEPT !.pc = "closed", !.pending = "", !.exit = how, !.client = "closed"]

\* Variant: a stream error is raised again at once.
RaiseAtOnce(w) == Finally([w EXCEPT !.streaming_error = TRUE], "stream_raised")

\* "except Exception as e": the error is noted and "data: [DONE]" is yielded
OnStreamError(w) ==
    [w EXCEPT !.streaming_error = TRUE, !.pc = "at_done", !.pending = DONE]

\* stream_kiro_to_openai yields a chunk, the wrapper yields it on
WrapperChunk(c) ==
    /\ wrapper.pc = "await"
    /\ wrapper.yielded < MaxFrames
    /\ wrapper' = [wrapper EXCEPT !.pc = "at_yield", !.pending = c,
                                  !.yielded = wrapper.yielded + 1]
    /\ UNCHANGED <<received, connected, nonWrapperVars>>

\* the server has sent the frame and resumes the generator: after a chunk
\* the loop goes on, after "data: [DONE]" the error is raised again and the
\* finally block runs
WrapperResumed ==
    /\ wrapper.pc \in {"at_yield", "at_done"}
    /\ connected
    /\ received' = Append(received, wrapper.pending)
    /\ wrapper' = IF wrapper.pc = "at_yield"
                  THEN [wrapper EXCEPT !.pc = "await", !.pending = ""]
                  ELSE Finally(wrapper, "stream_raised")
    /\ UNCHANGED <<connected, nonWrapperVars>>

\* stream_kiro_to_openai raises an error (an Exception) while the wrapper
\* waits for the next chunk
WrapperStreamRaises ==
    /\ wrapper.pc = "await"
    /\ wrapper' = OnStreamError(wrapper)
    /\ UNCHANGED <<received, connected, nonWrapperVars>>

\* stream_kiro_to_openai is exhausted
WrapperStreamEnds ==
    /\ wrapper.pc = "await"
    /\ wrapper' = Finally(wrapper, "completed")
    /\ UNCHANGED <<received, connected, nonWrapperVars>>

\* The client disconnects.  At a yield the generator is closed: GeneratorExit
\* is raised there, which "except GeneratorExit" catches at "yield chunk"
\* and nothing catches at the yield of "data: [DONE]".  While the generator
\* waits, the task is cancelled: CancelledError is no Exception and no
\* except clause catches it.  The finally block runs in each case.
WrapperDisconnect ==
    /\ wrapper.pc # "closed"
    /\ connected
    /\ connected' = FALSE
    /\ wrapper' =
         IF wrapper.pc = "at_yield"
         THEN Finally([wrapper EXCEPT !.client_disconnected = TRUE], "disconnected")
         ELSE IF wrapper.pc = "at_done"
         THEN Finally(wrapper, "disconnected_at_done")
         ELSE Finally(wrapper, "cancelled")
    /\ UNCHANGED <<received, nonWrapperVars>>

WrapperNext ==
    \/ \E c \in ChunkKinds : WrapperChunk(c)
    \/ WrapperResumed
    \/ WrapperStreamRaises
    \/ WrapperStreamEnds
    \/ WrapperDisconnect

(***************************************************************************)
(* The status the handlers answer with.  request_with_retry (not part of   *)
(* these sources) either returns the upstream response, whatever its       *)
(* status, or raises HTTPException 502 / 504.                              *)
(***************************************************************************)
UpstreamStatuses == {200, 400, 401, 403, 429}
RaisedStatuses == {502, 504}
EngineEnds ==
    [kind : {"response"}, status : UpstreamStatuses]
    \cup [kind : {"raised"}, status : RaisedStatuses]

NoReply == [handler |-> "none", pc |-> "idle", upstream |-> [kind |-> "none", status |-> 0],
            status_code |-> 0]

ReplyInit == reply = [r \in Requests |-> NoReply]

\* _anthropic_error: JSONResponse(status_code=400, ...)
_anthropic_error == 400

\* the status_code of the handler's response: an HTTPException raised by
\* request_with_retry is answered with its status by the framework; a 200
\* goes on to a StreamingResponse / JSONResponse (200); any other response
\* is answered by chat_completions with response.status_code and by
\* anthropic_messages with _anthropic_error
status_code(handler, e) ==
    IF e.kind = "raised" THEN e.status
    ELSE IF e.status = 200 THEN 200
    ELSE IF handler = "chat" THEN e.status
    ELSE _anthropic_error

\* the handler runs up to "await http_client.request_with_retry"
ReplyBegin(r, h) ==
    /\ reply[r].pc = "idle"
    /\ reply' = [reply EXCEPT ![r] = [NoReply EXCEPT !.handler = h, !.pc = "upstream"]]
    /\ UNCHANGED nonReplyVars

\* request_with_retry ends and the handler answers
ReplyUpstream(r, e) ==
    /\ reply[r].pc = "upstream"
    /\ reply' = [reply EXCEPT ![r] = [handler |-> reply[r].handler, pc |-> "done",
                                      upstream |-> e,
                                      status_code |-> status_code(reply[r].handler, e)]]
    /\ UNCHANGED nonReplyVars

ReplyNext ==
    \/ \E r \in Requests, h \in {"chat", "messages"} : ReplyBegin(r, h)
    \/ \E r \in Requests, e \in EngineEnds : ReplyUpstream(r, e)

RouteNext ==
    \/ \E r \in Requests, h \in Handlers, stream \in BOOLEAN, valid \in BOOLEAN :
            RouteBegin(r, h, stream, valid)
    \/ \E r \in Requests, o \in UpstreamOutcomes : RouteUpstream(r, o)
    \/ \E r \in Requests, raised \in BOOLEAN : RouteCollected(r, raised)
    \/ \E r \in Requests, how \in StreamExits : RouteStreamEnds(r, how)

(***************************************************************************)
(* kiro_gateway/anthropic_streaming.py: the tool_use blocks of a stream.    *)
(* An upstream tool call reaches the encoder as one or more entries of the  *)
(* delta.tool_calls lists: the first entry carries id and name, every entry *)
(* carries a fragment of the arguments text.                                *)
(***************************************************************************)
DeltaEntry == [call : 1..MaxUpstreamToolCalls, part : 1..MaxFragments, last : BOOLEAN]
NoEntry == [call |-> 0, part |-> 0, last |-> TRUE]

\* the entries that may follow entry prev in a well-formed OpenAI stream
NextEntries(prev) ==
    IF prev.last
    THEN {e \in DeltaEntry : e.call = prev.call + 1 /\ e.part = 1 /\ (MaxFragments = 1 => e.last)}
    ELSE {e \in DeltaEntry : e.call = prev.call /\ e.part = prev.part + 1 /\ (e.part = MaxFragments => e.last)}

\* the delta.tool_calls lists of at most n entries that may follow prev
RECURSIVE DeltaToolCalls(_, _)
DeltaToolCalls(prev, n) ==
    IF n = 0 THEN {<<>>}
    ELSE {<<>>} \cup UNION {{<<e>> \o t : t \in DeltaToolCalls(e, n - 1)} : e \in NextEntries(prev)}

\* json.loads of one entry's arguments text: the whole input when the entry
\* holds the whole text, {"_raw": ...} or {"value": ...} of a fragment otherwise
_safe_json_loads(tc) == IF tc.part = 1 /\ tc.last THEN "parsed" ELSE "fragment"

\* tc.get("id") or "", func.get("name") or "": only the first entry has them
IdOf(tc) == IF tc.part = 1 THEN tc.call ELSE 0

BlockEvent(type, index, block, id, input) ==
    [type |-> type, index |-> index, block |-> block, id |-> id, name |-> id, input |-> input]

\* for tc in delta_tool_calls: one content_block_start and one
\* content_block_stop per entry
RECURSIVE ToolUseBlocks(_, _)
ToolUseBlocks(tcs, i) ==
    IF tcs = <<>> THEN <<>>
    ELSE << BlockEvent("content_block_start", i + 1, "tool_use", IdOf(Head(tcs)), _safe_json_loads(Head(tcs))),
            BlockEvent("content_block_stop", i + 1, "none", 0, "none") >>
         \o ToolUseBlocks(Tail(tcs), i + 1)

ToolInit ==
    /\ delivered = <<>>
    /\ blocks = <<>>
    /\ block_index = 0
    /\ block_open = FALSE
    /\ tool_pc = "idle"

\* message_start and the content_block_start of the text block at index 0
ToolStreamStart ==
    /\ tool_pc = "idle"
    /\ tool_pc' = "streaming"
    /\ block_open' = TRUE
    /\ blocks' = <<BlockEvent("content_block_start", 0, "text", 0, "none")>>
    /\ UNCHANGED <<delivered, block_index>>
    /\ UNCHANGED nonToolVars

\* one chunk of the OpenAI stream: an optional text delta and a list of
\* tool call entries
ToolStreamChunk(text, tcs) ==
    /\ tool_pc = "streaming"
    /\ text \/ tcs # <<>>
    /\ Len(blocks) < MaxBlockEvents
    /\ delivered' = delivered \o tcs
    /\ blocks' = blocks
            \o (IF text THEN <<BlockEvent("content_block_delta", block_index, "text", 0, "none")>> ELSE <<>>)
            \o (IF tcs # <<>> /\ block_open THEN <<BlockEvent("content_block_stop", block_index, "none", 0, "none")>> ELSE <<>>)
            \o ToolUseBlocks(tcs, block_index)
    /\ block_open' = (block_open /\ tcs = <<>>)
    /\ block_index' = block_index + Len(tcs)
    /\ UNCHANGED tool_pc
    /\ UNCHANGED nonToolVars

\* the stream ends: the text block is closed if it is still open
ToolStreamEnd ==
    /\ tool_pc = "streaming"
    /\ tool_pc' = "ended"
    /\ blocks' = blocks
            \o (IF block_open THEN <<BlockEvent("content_block_stop", block_index, "none", 0, "none")>> ELSE <<>>)
    /\ block_open' = FALSE
    /\ UNCHANGED <<delivered, block_index>>
    /\ UNCHANGED nonToolVars

LastDelivered == IF delivered = <<>> THEN NoEntry ELSE delivered[Len(delivered)]

ToolNext ==
    \/ ToolStreamStart
    \/ \E text \in BOOLEAN, tcs \in DeltaToolCalls(LastDelivered, MaxEntries) : ToolStreamChunk(text, tcs)
    \/ ToolStreamEnd

(***************************************************************************)
(* kiro_gateway/anthropic_converters.py: the Anthropic message made of a    *)
(* collected OpenAI response.  The response is recorded by what the         *)
(* conversion reads of it: whether message.content is non-empty, how many   *)
(* entries message.tool_calls has, and choices[0].finish_reason ("none" is  *)
(* a missing or null one, "content_filter" stands for every other string).  *)
(***************************************************************************)
CollectedFinishReasons == FinishReasons \cup {"content_filter"}
OpenAIResponses == [text : BOOLEAN, tools : 0..MaxToolCalls, finish : CollectedFinishReasons]
NoMessage == [content |-> <<>>, stop_reason |-> "none"]

CollectInit == collected = [pc |-> "idle", response |-> [text |-> FALSE, tools |-> 0, finish |-> "none"], message |-> NoMessage]

openai_chat_completion_to_anthropic_message(openai_response) ==
    [content |-> (IF openai_response.text THEN <<"text">> ELSE <<>>)
                    \o [k \in 1..openai_response.tools |-> "tool_use"],
     stop_reason |-> _finish_reason_to_stop_reason(openai_response.finish, openai_response.tools)]

Collect(openai_response) ==
    /\ collected.pc = "idle"
    /\ collected' = [pc |-> "done", response |-> openai_response,
                     message |-> openai_chat_completion_to_anthropic_message(openai_response)]
    /\ UNCHANGED nonCollectVars

StopReasonNext ==
    \/ StreamNext
    \/ \E openai_response \in OpenAIResponses : Collect(openai_response)

(***************************************************************************)
(* kiro_gateway/anthropic_converters.py: a user message of an Anthropic     *)
(* request lifted into OpenAI messages.  A content block is recorded by its *)
(* type ("other" is a dict of any further type, such as an image; "nondict" *)
(* is a list item that is no dict), its tool_use_id ("missing" when the key *)
(* is absent or null) and its text.                                         *)
(***************************************************************************)
ToolUseIds == {"missing", "", "call_1", "call_2"}
Texts == {"", "t"}
ContentBlocks ==
    [type : {"tool_result"}, tool_use_id : ToolUseIds, text : {"r"}]
    \cup [type : {"text"}, tool_use_id : {"missing"}, text : Texts]
    \cup [type : {"other", "nondict"}, tool_use_id : {"missing"}, text : {""}]
BlockLists == UNION {[1..n -> ContentBlocks] : n \in 0..MaxBlocks}
Contents ==
    [kind : {"str"}, text : Texts, blocks : {<<>>}]
    \cup [kind : {"none"}, text : {""}, blocks : {<<>>}]
    \cup [kind : {"list"}, text : {""}, blocks : BlockLists]

NoUserMessage == [role |-> "none", content |-> <<>>, tool_call_id |-> ""]
ChatMessage(role, content, tool_call_id) == [role |-> role, content |-> content, tool_call_id |-> tool_call_id]

\* every tool message without the id (variant, used to test C24)
NoToolUseId(block) == ""

\* block.get("tool_use_id") or ""
ToolUseIdOf(block) == IF block.tool_use_id = "missing" THEN "" ELSE block.tool_use_id

\* the loop over the blocks of a content list: text_blocks and tool_messages
RECURSIVE text_blocks(_)
text_blocks(items) ==
    IF items = <<>> THEN <<>>
    ELSE (IF Head(items).type \in {"text", "other"} THEN <<Head(items).text>> ELSE <<>>)
         \o text_blocks(Tail(items))

RECURSIVE tool_messages(_)
tool_messages(items) ==
    IF items = <<>> THEN <<>>
    ELSE (IF Head(items).type = "tool_result"
          THEN <<ChatMessage("tool", <<Head(items).text>>, ToolUseIdOf(Head(items)))>> ELSE <<>>)
         \o tool_messages(Tail(items))

\* the pair (user_message, tool_messages)
_convert_anthropic_user_message(content) ==
    IF content.kind # "list"
    THEN [user_message |-> IF content.text # "" THEN ChatMessage("user", <<content.text>>, "") ELSE NoUserMessage,
          tool_messages |-> <<>>]
    ELSE [user_message |-> IF text_blocks(content.blocks) # <<>>
                           THEN ChatMessage("user", text_blocks(content.blocks), "") ELSE NoUserMessage,
          tool_messages |-> tool_messages(content.blocks)]

\* role == "user": the user message, if any, then the tool messages
UserMessageOut(converted) ==
    (IF converted.user_message # NoUserMessage THEN <<converted.user_message>> ELSE <<>>)
    \o converted.tool_messages

LiftInit == lifted = [pc |-> "idle", content |-> [kind |-> "none", text |-> "", blocks |-> <<>>], out |-> <<>>]

Lift(content) ==
    /\ lifted.pc = "idle"
    /\ lifted' = [pc |-> "done", content |-> content,
                  out |-> UserMessageOut(_convert_anthropic_user_message(content))]
    /\ UNCHANGED nonLiftVars

LiftNext == \E content \in Contents : Lift(content)

(***************************************************************************)
(* kiro/billing.py: the preflight check.  Amounts are Decimals of at most   *)
(* two places here and are counted in hundredths of a credit, which keeps   *)
(* their comparison exact.  The balance of a record is the Decimal that     *)
(* _to_decimal makes of the stored number, Decimal(str(value)).             *)
(***************************************************************************)
NoRecord == [found |-> FALSE, balance |-> 0]
CreditsDocs == {NoRecord} \cup [found : {TRUE}, balance : {0, 1, 2}]
RequiredCredits == {-1, 0, 1, 2, 3}
Lookups == {"ok", "error"}

\* kiro/mongodb_store.py get_credit_balance: None when the record or its
\* balance field is missing, and when the lookup raises
get_credit_balance(doc, lookup) == IF lookup = "error" THEN NoRecord ELSE doc

\* the balance is taken for enough when it cannot be read (variant, used to
\* test C25)
SufficientWhenUnread(doc, lookup, required_credits) ==
    ~get_credit_balance(doc, lookup).found \/ get_credit_balance(doc, lookup).balance >= required_credits

\* kiro/mongodb_store.py has_sufficient_credits
has_sufficient_credits(doc, lookup, required_credits) ==
    get_credit_balance(doc, lookup).found /\ get_credit_balance(doc, lookup).balance >= required_credits

\* kiro/billing.py ensure_user_has_sufficient_credits
ensure_user_has_sufficient_credits(cfg, doc, lookup, required_credits) ==
    IF ~cfg.BILLING_ENABLED \/ ~cfg.BILLING_ENFORCE_SUFFICIENT_CREDITS THEN "return"
    ELSE IF required_credits <= 0 THEN "return"
    ELSE IF ~has_sufficient_credits(doc, lookup, required_credits) THEN "InsufficientCreditsError"
    ELSE "return"

NoPreflight == [n |-> 0, required_credits |-> 0, lookup |-> "ok", result |-> "none"]

PreflightInit ==
    /\ credits_doc \in CreditsDocs
    /\ enforcement \in [BILLING_ENABLED : BOOLEAN, BILLING_ENFORCE_SUFFICIENT_CREDITS : BOOLEAN]
    /\ preflight = NoPreflight

PreflightQuiet ==
    /\ PreflightInit
    /\ credits_doc = NoRecord
    /\ enforcement = [BILLING_ENABLED |-> TRUE, BILLING_ENFORCE_SUFFICIENT_CREDITS |-> TRUE]

\* one call of ensure_user_has_sufficient_credits: it reads the record with
\* find_one and writes nothing
Preflight(required_credits, lookup) ==
    /\ preflight.n < MaxPreflights
    /\ preflight' = [n |-> preflight.n + 1, required_credits |-> required_credits, lookup |-> lookup,
                     result |-> ensure_user_has_sufficient_credits(enforcement, credits_doc, lookup,
                                                                   required_credits)]
    /\ UNCHANGED <<credits_doc, enforcement>>
    /\ UNCHANGED nonPreflightVars

PreflightNext == \E required_credits \in RequiredCredits, lookup \in Lookups : Preflight(required_credits, lookup)

(***************************************************************************)
(* kiro/billing.py: pricing resolution for a model id.  The pricing table   *)
(* holds the one row `pricing`, configured under the id claude-sonnet-4.5;  *)
(* the index has its raw and its normalized key.                            *)
(***************************************************************************)
ModelIds == {"claude-sonnet-4.5", "Claude-Sonnet-4.5", "claude-sonnet-4-5-20250929", "unknown-model"}
Policies == {"reject", "free", "default"}

\* model_id.lower()
Lower(model_id) == IF model_id = "Claude-Sonnet-4.5" THEN "claude-sonnet-4.5" ELSE model_id

\* _normalize_pricing_key: normalize_model_name(model_id), lowercased
_normalize_pricing_key(model_id) ==
    IF model_id \in {"claude-sonnet-4.5", "Claude-Sonnet-4.5", "claude-sonnet-4-5-20250929"}
    THEN "claude-sonnet-4.5" ELSE Lower(model_id)

\* the keys of _build_pricing_index for the configured row
PricingIndexKeys == {Lower("claude-sonnet-4.5"), _normalize_pricing_key("claude-sonnet-4.5")}

FreeRow ==
    [input_price_per_mtok |-> Dec(0, 0), output_price_per_mtok |-> Dec(0, 0),
     cache_write_price_per_mtok |-> Dec(0, 0), cache_hit_price_per_mtok |-> Dec(0, 0),
     billing_multiplier |-> Dec(1, 0)]

\* _default_pricing: the row of the BILLING_DEFAULT_* settings
_default_pricing ==
    [input_price_per_mtok |-> Dec(50, -1), output_price_per_mtok |-> Dec(250, -1),
     cache_write_price_per_mtok |-> Dec(0, 0), cache_hit_price_per_mtok |-> Dec(0, 0),
     billing_multiplier |-> Dec(1, 0)]

\* an unknown model is never refused (variant, used to test C26)
NeverReject(model_id, row, policy) ==
    IF Lower(model_id) \in PricingIndexKeys \/ _normalize_pricing_key(model_id) \in PricingIndexKeys
    THEN [raised |-> FALSE, row |-> row]
    ELSE IF policy = "free" THEN [raised |-> FALSE, row |-> FreeRow]
    ELSE [raised |-> FALSE, row |-> _default_pricing]

\* kiro/billing.py _resolve_model_pricing
_resolve_model_pricing(model_id, row, policy) ==
    IF Lower(model_id) \in PricingIndexKeys \/ _normalize_pricing_key(model_id) \in PricingIndexKeys
    THEN [raised |-> FALSE, row |-> row]
    ELSE IF policy = "free" THEN [raised |-> FALSE, row |-> FreeRow]
    ELSE IF policy = "reject" THEN [raised |-> TRUE, row |-> FreeRow]
    ELSE [raised |-> FALSE, row |-> _default_pricing]

\* kiro/billing.py calculate_charge_from_usage(model_id, usage): the check of
\* BILLING_ENABLED comes before the pricing is resolved
ChargeForModel(model_id, usage, row, policy, enabled, decimal_places) ==
    IF ~enabled THEN [raised |-> FALSE, charge |-> DecZero]
    ELSE IF _resolve_model_pricing(model_id, row, policy).raised THEN [raised |-> TRUE, charge |-> DecZero]
    ELSE [raised |-> FALSE,
          charge |-> calculate_charge_from_usage(_resolve_model_pricing(model_id, row, policy).row,
                                                 usage, enabled, decimal_places)]

NoCharge == [n |-> 0, model_id |-> "unknown-model", usage |-> Usage(0, 0, 0, 0), result |-> "none",
             charge |-> DecZero, updates |-> 0, before |-> DoubleZero]

PolicyInit ==
    /\ unknown_model_policy \in Policies
    /\ model_charge = NoCharge

PolicyQuiet == PolicyInit /\ unknown_model_policy = "reject"

\* kiro/billing.py deduct_credits_for_usage(user_id, model_id, usage): the
\* result is "UnknownModelPricingError", "zero" (nothing model_charge, the store is
\* not called), "deducted" or "InsufficientCreditsError"
DeductForModel(model_id, usage, db_error) ==
    /\ model_charge.n < MaxDeducts
    /\ \E c \in {ChargeForModel(model_id, usage, pricing, unknown_model_policy, billing_enabled,
                                billing_decimal_places)} :
       \E r \in {IF c.raised \/ c.charge.c = <<>> THEN [balance |-> balance, ok |-> TRUE]
                 ELSE deduct_credits_atomic(balance, c.charge, db_error)} :
       \E result \in {IF c.raised THEN "UnknownModelPricingError"
                      ELSE IF c.charge.c = <<>> THEN "zero"
                      ELSE IF r.ok THEN "deducted" ELSE "InsufficientCreditsError"} :
          /\ balance' = r.balance
          /\ exact' = IF result = "deducted"
                      THEN (IF DecLess(exact, c.charge) THEN DecZero ELSE DecSub(exact, c.charge))
                      ELSE exact
          /\ model_charge' = [n |-> model_charge.n + 1, model_id |-> model_id, usage |-> usage, result |-> result,
                         charge |-> c.charge,
                         updates |-> IF result \in {"deducted", "InsufficientCreditsError"} /\ ~db_error
                                     THEN 1 ELSE 0,
                         before |-> balance]
    /\ UNCHANGED <<pricing, billing_decimal_places, billing_enabled, lastDeduct, deducts,
                   unknown_model_policy>>
    /\ UNCHANGED nonBillPolicyVars

PolicyNext ==
    \E model_id \in ModelIds, usage \in Usages, db_error \in BOOLEAN : DeductForModel(model_id, usage, db_error)

(***************************************************************************)
(* kiro_gateway/routes.py: the API key check of the authenticated           *)
(* endpoints.  PROXY_API_KEY is "key".  A header is "absent", or its value. *)
(***************************************************************************)
PROXY_API_KEY == "key"
AuthorizationHeaders == {"absent", "", "Bearer key", "Bearer wrong", "key"}
XApiKeyHeaders == {"absent", "", "key", "wrong"}
Endpoints == {"GET /v1/models", "POST /v1/messages", "POST /v1/messages/count_tokens",
              "POST /v1/messages/batches", "POST /v1/chat/completions"}

\* truth of a header value: APIKeyHeader(auto_error=False) gives None for a
\* missing header
Given(header) == header \notin {"absent", ""}

\* validate_api_key
validate_api_key(api_key) == Given(api_key) /\ api_key = PROXY_API_KEY

\* verify_api_key: True, or HTTPException 401
verify_api_key(auth_header) == Given(auth_header) /\ auth_header = "Bearer key"

\* verify_any_api_key
verify_any_api_key(auth_header, x_api_key) ==
    IF Given(auth_header) THEN verify_api_key(auth_header)
    ELSE Given(x_api_key) /\ validate_api_key(x_api_key)

\* the dependency each route declares
Dependency(endpoint, auth_header, x_api_key) ==
    IF endpoint = "POST /v1/chat/completions" THEN verify_api_key(auth_header)
    ELSE verify_any_api_key(auth_header, x_api_key)

AccessInit == access = [n |-> 0, endpoint |-> "GET /v1/models", authorization |-> "absent",
                        x_api_key |-> "absent", status |-> 0]

Access(endpoint, auth_header, x_api_key) ==
    /\ access.n < MaxAccesses
    /\ access' = [n |-> access.n + 1, endpoint |-> endpoint, authorization |-> auth_header,
                  x_api_key |-> x_api_key,
                  status |-> IF Dependency(endpoint, auth_header, x_api_key) THEN 200 ELSE 401]
    /\ UNCHANGED nonAccessVars

AccessNext ==
    \E endpoint \in Endpoints, auth_header \in AuthorizationHeaders, x_api_key \in XApiKeyHeaders :
        Access(endpoint, auth_header, x_api_key)

(***************************************************************************)
(* deploy_app/main.py: a streaming chat completion of the forwarding proxy. *)
(* client and response are "none" (not made), "open" or "closed";           *)
(* generator is stream_generator: "none", "created" (handed to              *)
(* StreamingResponse, its body not entered), "running" (inside its try      *)
(* block) or "finished".  The server iterates the generator, or drops it    *)
(* without iterating when the client is gone before the response starts;    *)
(* dropping a generator that was never entered runs none of its code.       *)
(***************************************************************************)
ProxyStatuses == {200, 400, 401, 500}
ConnectErrors == {"TimeoutException", "HTTPError"}

ProxyInit == proxy = [pc |-> "idle", client |-> "none", response |-> "none", generator |-> "none",
                      connected |-> TRUE, relayed |-> 0, exit |-> "none"]

\* the finally block of stream_generator
GeneratorFinally(pr, exit) ==
    [pr EXCEPT !.response = "closed", !.client = "closed", !.generator = "finished",
               !.pc = "done", !.exit = exit]

ProxyBegin ==
    /\ proxy.pc = "idle"
    /\ proxy' = [proxy EXCEPT !.pc = "connecting", !.client = "open"]
    /\ UNCHANGED nonProxyVars

\* client.send raises httpx.TimeoutException or another httpx.HTTPError
ProxyConnectFails(error) ==
    /\ proxy.pc = "connecting"
    /\ proxy' = [proxy EXCEPT !.pc = "done", !.client = "closed",
                              !.exit = IF error = "TimeoutException" THEN "504" ELSE "502"]
    /\ UNCHANGED nonProxyVars

\* client.send returns: an error status is read, closed and answered as JSON;
\* otherwise the StreamingResponse over stream_generator() is returned
ProxyConnected(status) ==
    /\ proxy.pc = "connecting"
    /\ proxy' = IF status >= 400
                THEN [proxy EXCEPT !.pc = "done", !.response = "closed", !.client = "closed",
                                   !.exit = "upstream_error"]
                ELSE [proxy EXCEPT !.pc = "responding", !.response = "open", !.generator = "created"]
    /\ UNCHANGED nonProxyVars

\* the client goes away
ProxyClientLeaves ==
    /\ proxy.pc \in {"connecting", "responding", "relaying"}
    /\ proxy.connected
    /\ proxy' = [proxy EXCEPT !.connected = FALSE]
    /\ UNCHANGED nonProxyVars

\* the server starts to iterate the body: the generator enters its try block
ProxyServe ==
    /\ proxy.pc = "responding"
    /\ proxy' = [proxy EXCEPT !.pc = "relaying", !.generator = "running"]
    /\ UNCHANGED nonProxyVars

\* the server finds the client gone before it iterates the body
ProxyDropped ==
    /\ proxy.pc = "responding"
    /\ ~proxy.connected
    /\ proxy' = [proxy EXCEPT !.pc = "done", !.generator = "finished", !.exit = "disconnected"]
    /\ UNCHANGED nonProxyVars

\* one chunk of upstream_response.aiter_raw() is yielded
ProxyChunk ==
    /\ proxy.pc = "relaying"
    /\ proxy.connected
    /\ proxy.relayed < MaxRelayed
    /\ proxy' = [proxy EXCEPT !.relayed = @ + 1]
    /\ UNCHANGED nonProxyVars

\* aiter_raw() is exhausted, or raises
ProxyStreamEnds(exit) ==
    /\ proxy.pc = "relaying"
    /\ proxy' = GeneratorFinally(proxy, exit)
    /\ UNCHANGED nonProxyVars

\* the running generator is cancelled or closed because the client is gone
ProxyCancelled ==
    /\ proxy.pc = "relaying"
    /\ ~proxy.connected
    /\ proxy' = GeneratorFinally(proxy, "disconnected")
    /\ UNCHANGED nonProxyVars

ProxyNext ==
    \/ ProxyBegin
    \/ \E error \in ConnectErrors : ProxyConnectFails(error)
    \/ \E status \in ProxyStatuses : ProxyConnected(status)
    \/ ProxyClientLeaves
    \/ ProxyServe
    \/ ProxyDropped
    \/ ProxyChunk
    \/ \E exit \in {"relayed", "stream_error"} : ProxyStreamEnds(exit)
    \/ ProxyCancelled

(***************************************************************************)
(* The profile lookup and the records kept of an account.  The access      *)
(* token, the expiry and the refresh secret of account k are held in its   *)
(* pool entry, in its row of the store and, while k is the active account, *)
(* in the active fields.  A task runs without interruption between two     *)
(* awaits, so what any reader can see is the state between two steps.      *)
(***************************************************************************)
\* kiro/auth.py get_profile_arn_for_request: under the lock the request's
\* account is selected and made active; no request is sent
get_profile_arn_for_request(m, c) ==
    LET s == IF Len(m.pool) > 0 THEN _get_or_select_request_account_locked(m, FALSE) ELSE m
        a == IF s.sel # 0 THEN _set_active_account(s, s.pool[s.sel]) ELSE s
    IN Result(a, c, "ret", NoTok)

\* Task t looks up the profile of its request's account.
CallGetProfileArn(t) ==
    /\ lock = 0 /\ calls < MaxCalls
    /\ calls' = calls + 1
    /\ Continue(t, get_profile_arn_for_request(ManagerState(t), StartCall(t, "arn")), hist)
    /\ UNCHANGED <<now, gen, nonAuthVars>>

\* The manager with its request tasks, which call get_access_token,
\* force_refresh and the profile lookup and can be cancelled.
AtomicNext ==
    \/ \E t \in Tasks : calls < MaxRefreshCalls /\ CallGetAccessToken(t)
    \/ \E t \in Tasks : calls < MaxRefreshCalls /\ CallForceRefresh(t)
    \/ \E t \in Tasks : calls < MaxRefreshCalls /\ CallGetProfileArn(t)
    \/ \E t \in Tasks : RefreshResponse(t)
    \/ \E t \in Tasks : CancelRequest(t)
    \/ Tick

(***************************************************************************)
(* Selections on a pool whose accounts are put in quarantine:              *)
(* _get_or_select_request_account_locked as get_access_token and the       *)
(* profile lookup call it under the lock, and the quarantine that a failed *)
(* pass of get_access_token puts on the request's account.                 *)
(***************************************************************************)
NoChoice == [flip |-> FALSE, task |-> 0, force |-> FALSE, sel |-> 0, swept |-> FALSE]

SelectQuiet == chosen = NoChoice

\* task t selects the account of its request
SelectAccount(t, force_next) ==
    /\ lock = 0
    /\ \E s \in {_get_or_select_request_account_locked(ManagerState(t), force_next)} :
         /\ pool' = s.pool
         /\ rr' = s.rr
         /\ lastSel' = s.gsel
         /\ reqKey' = [reqKey EXCEPT ![t] = s.key]
         /\ chosen' = [flip |-> ~chosen.flip, task |-> t, force |-> force_next, sel |-> s.sel,
                       swept |-> \A i \in 1..Len(pool) :
                                    ~_is_account_eligible(pool[i], now)]
    /\ UNCHANGED <<now, active, store, lock, call, ret, seen, calls, gen, hist,
                   nonAuthSelectVars>>

\* a pass of get_access_token for task t has failed on a pool of several
\* accounts: the request's account is put in quarantine (lines 1375-1405)
QuarantineAccount(t) ==
    /\ lock = 0 /\ Len(pool) > 1 /\ reqKey[t] # 0
    /\ pool' = _mark_current_account_unhealthy_locked(ManagerState(t)).pool
    /\ UNCHANGED <<now, rr, active, store, lock, reqKey, call, ret, seen, calls, gen, hist,
                   lastSel, nonAuthVars>>

SelectionNext ==
    \/ \E t \in Tasks, force_next \in BOOLEAN : SelectAccount(t, force_next)
    \/ \E t \in Tasks : QuarantineAccount(t)
    \/ Tick

(***************************************************************************)
(* Saving refreshed credentials.  A manager without a KV store writes them *)
(* to its JSON credentials file, when one is configured; the rows of a KV  *)
(* store can be removed by the other process that shares it (kiro-cli      *)
(* logout).                                                                *)
(***************************************************************************)
NoFile == [configured |-> FALSE, exists |-> FALSE, tok |-> NoTok, exp |-> NoExp, rt |-> NoTok]

FileQuiet == creds_file = NoFile

\* The file as the constructor finds it: none configured, one that
\* _load_credentials_from_file has read the refresh token from, or a path
\* at which no file exists (the refresh token then comes from the environment).
FileInit ==
    \E configured \in BOOLEAN, exists \in BOOLEAN :
        /\ (exists => configured)
        /\ (Len(pool) > 0 => ~configured)
        /\ creds_file = [configured |-> configured, exists |-> exists, tok |-> NoTok,
                         exp |-> NoExp, rt |-> IF exists THEN active.rt ELSE NoTok]

\* kiro/auth.py _save_credentials_to_file: "if path.exists()" guards the read
\* only, open(path, 'w') writes the file in either case
_save_credentials_to_file(f, act) ==
    IF ~f.configured THEN f
    ELSE [configured |-> TRUE, exists |-> TRUE, tok |-> act.tok, rt |-> act.rt,
          exp |-> IF act.exp # NoExp THEN act.exp ELSE f.exp]

\* The issuance endpoint answers the refresh request of task t of a manager
\* without a KV store; a token issued is saved to the credentials file.
FileRefreshResponse(t) ==
    /\ lock = t /\ Len(pool) = 0
    /\ \E o \in Outcomes :
         /\ LET m == ManagerState(t)
                rot == o = "ok"
                newgen == gen[Issuer(m)] + 1
                r == IF call.op = "gat"
                     THEN get_access_token_resume(m, call, o, rot, newgen)
                     ELSE force_refresh_resume(m, call, o, rot, newgen)
                h == IF o = "ok" /\ hist.good = NoTok
                     THEN [hist EXCEPT !.good = r.m.act.tok, !.at = hist.issued]
                     ELSE hist
            IN /\ Continue(t, r, h)
               /\ gen' = IF o \in {"ok", "short"}
                         THEN [gen EXCEPT ![Issuer(m)] = newgen] ELSE gen
               /\ creds_file' = IF o \in {"ok", "short"}
                                THEN _save_credentials_to_file(creds_file, r.m.act)
                                ELSE creds_file
    /\ UNCHANGED <<now, calls, nonAuthFileVars>>

\* Another process removes the row of account k from the KV store.
ExternalDelete(k) ==
    /\ lock = 0 /\ k \in 1..Len(pool) /\ store[k].present
    /\ store' = [store EXCEPT ![k].present = FALSE]
    /\ UNCHANGED <<now, pool, rr, active, lock, reqKey, call, ret, seen, calls, gen, hist,
                   lastSel, nonAuthVars>>

SaveNext ==
    \/ \E t \in Tasks : calls < MaxRefreshCalls /\ CallGetAccessToken(t)
    \/ \E t \in Tasks : calls < MaxRefreshCalls /\ CallForceRefresh(t)
    \/ \E t \in Tasks : Len(pool) > 0 /\ RefreshResponse(t)
    \/ \E t \in Tasks : FileRefreshResponse(t)
    \/ \E k \in 1..MaxPool : ExternalDelete(k)
    \/ Tick

(***************************************************************************)
(* Message batches (kiro_gateway/routes.py).  One batch of the registry,   *)
(* the task that runs its requests one after the other, cancel and delete  *)
(* requests, and one reader of the results stream.  A request of the batch *)
(* is written as whether AnthropicCreateMessageRequest accepts its params; *)
(* a result as its custom_id (the position of the request), its type, and  *)
(* whether the upstream was called for it.                                 *)
(***************************************************************************)
NoBatch == [exists |-> FALSE, processing_status |-> "none", requests |-> <<>>,
            processing |-> 0, succeeded |-> 0, errored |-> 0, canceled |-> 0]
NoStream == [pc |-> "none", yielded |-> 0, emitted |-> <<>>, held |-> <<>>]

BatchRequests == UNION {[1..n -> BOOLEAN] : n \in 0..MaxBatchRequests}

BatchInit ==
    /\ anthropic_batch = NoBatch
    /\ batch_results = <<>>
    /\ batch_task = [pc |-> "none", item |-> 0]
    /\ results_stream = NoStream
    /\ recorded = <<>>

BatchResult(custom_id, type, called) == [custom_id |-> custom_id, type |-> type, called |-> called]

\* what the task holds when it next suspends or returns
BatchRun(b, res, pc, item) == [b |-> b, res |-> res, pc |-> pc, item |-> item]

\* after the loop: "if batch.get('processing_status') != 'canceled'" (lines 415-416)
BatchLoopEnds(b, res) ==
    BatchRun([b EXCEPT !.processing_status =
                  IF b.processing_status # "canceled" THEN "ended" ELSE b.processing_status],
             res, "done", 0)

\* finally: counts["processing"] = max(0, counts["processing"] - 1)
BatchFinally(b) == [b EXCEPT !.processing = IF b.processing > 0 THEN b.processing - 1 ELSE 0]

RECURSIVE BatchLoop(_, _, _)
RECURSIVE BatchItemErrored(_, _, _, _)

\* Variant: an item that fails ends the loop.
BatchItemErroredStops(b, res, i, called) ==
    BatchLoopEnds(BatchFinally([b EXCEPT !.errored = b.errored + 1]),
                  Append(res, BatchResult(i, "errored", called)))

\* except Exception: the errored result is appended, the count raised, and
\* the loop goes on with the next item (lines 401-413)
BatchItemErrored(b, res, i, called) ==
    BatchLoop(BatchFinally([b EXCEPT !.errored = b.errored + 1]),
              Append(res, BatchResult(i, "errored", called)), i + 1)

\* the upstream call succeeded and the response was collected (lines 389-400)
BatchItemSucceeded(b, res, i) ==
    BatchLoop(BatchFinally([b EXCEPT !.succeeded = b.succeeded + 1]),
              Append(res, BatchResult(i, "succeeded", TRUE)), i + 1)

\* _run_anthropic_batch from the top of the loop at item i up to the next
\* await (request_with_retry) or to the return
BatchLoop(b, res, i) ==
    IF i > Len(b.requests) THEN BatchLoopEnds(b, res)
    ELSE IF b.processing_status = "canceled" THEN BatchLoopEnds(b, res)
    ELSE IF ~b.requests[i] THEN BatchItemErrored(b, res, i, FALSE)
    ELSE BatchRun(b, res, "await", i)

\* what a step of the task leaves behind
BatchTaskStep(r) ==
    /\ anthropic_batch' = r.b
    /\ batch_results' = r.res
    /\ batch_task' = [pc |-> r.pc, item |-> r.item]
    /\ recorded' = recorded \o SubSeq(r.res, Len(batch_results) + 1, Len(r.res))

\* create_message_batch
CreateMessageBatch(requests) ==
    /\ batch_task.pc = "none"
    /\ anthropic_batch' = [NoBatch EXCEPT !.exists = TRUE, !.processing_status = "in_progress",
                                          !.requests = requests]
    /\ batch_results' = <<>>
    /\ batch_task' = [pc |-> "created", item |-> 0]
    /\ UNCHANGED <<results_stream, recorded>>
    /\ UNCHANGED nonBatchVars

\* the task starts: counts["processing"] = len(requests_list), then the loop
BatchTaskStarts ==
    /\ batch_task.pc = "created"
    /\ BatchTaskStep(BatchLoop([anthropic_batch EXCEPT !.processing = Len(anthropic_batch.requests)],
                               batch_results, 1))
    /\ UNCHANGED results_stream
    /\ UNCHANGED nonBatchVars

\* the upstream call of the current item returns (ok) or fails
BatchUpstreamAnswers(ok) ==
    /\ batch_task.pc = "await"
    /\ BatchTaskStep(IF ok THEN BatchItemSucceeded(anthropic_batch, batch_results, batch_task.item)
                     ELSE BatchItemErrored(anthropic_batch, batch_results, batch_task.item, TRUE))
    /\ UNCHANGED results_stream
    /\ UNCHANGED nonBatchVars

\* cancel_message_batch
CancelMessageBatch ==
    /\ anthropic_batch.exists
    /\ anthropic_batch' =
          IF anthropic_batch.processing_status \in {"ended", "canceled"} THEN anthropic_batch
          ELSE [anthropic_batch EXCEPT !.processing_status = "canceled",
                                       !.canceled = Len(anthropic_batch.requests)]
    /\ UNCHANGED <<batch_results, batch_task, results_stream, recorded>>
    /\ UNCHANGED nonBatchVars

\* delete_message_batch: both entries are popped and the task is cancelled; a
\* generator suspended at a yield keeps the list it had fetched
DeleteMessageBatch ==
    /\ anthropic_batch.exists
    /\ anthropic_batch' = [anthropic_batch EXCEPT !.exists = FALSE]
    /\ batch_results' = <<>>
    /\ batch_task' = IF batch_task.pc = "await" THEN [batch_task EXCEPT !.pc = "cancelling"]
                     ELSE IF batch_task.pc = "created" THEN [batch_task EXCEPT !.pc = "cancelled"]
                     ELSE batch_task
    /\ results_stream' = IF results_stream.pc = "yielded"
                         THEN [results_stream EXCEPT !.held = batch_results]
                         ELSE results_stream
    /\ UNCHANGED recorded
    /\ UNCHANGED nonBatchVars

\* CancelledError reaches the task at its await: only the finally clause runs
BatchTaskCancelled ==
    /\ batch_task.pc = "cancelling"
    /\ anthropic_batch' = BatchFinally(anthropic_batch)
    /\ batch_task' = [batch_task EXCEPT !.pc = "cancelled"]
    /\ UNCHANGED <<batch_results, results_stream, recorded>>
    /\ UNCHANGED nonBatchVars

\* get_message_batch_results: 404 unless the batch is in the registry
OpenResultsStream ==
    /\ anthropic_batch.exists /\ results_stream.pc = "none"
    /\ results_stream' = [NoStream EXCEPT !.pc = "ready"]
    /\ UNCHANGED <<anthropic_batch, batch_results, batch_task, recorded>>
    /\ UNCHANGED nonBatchVars

\* gen() runs up to its next yield, to its sleep or to its end.  Suspended at
\* a yield it goes on with the list it holds; otherwise it fetches the list.
ResultsStreamRuns ==
    /\ results_stream.pc \in {"ready", "yielded", "sleeping"}
    /\ \E results \in {IF results_stream.pc = "yielded" /\ ~anthropic_batch.exists
                       THEN results_stream.held ELSE batch_results} :
         results_stream' =
            IF results_stream.yielded < Len(results)
            THEN [results_stream EXCEPT
                     !.pc = "yielded", !.yielded = results_stream.yielded + 1,
                     !.emitted = Append(results_stream.emitted,
                                        results[results_stream.yielded + 1])]
            ELSE IF ~anthropic_batch.exists
                     \/ anthropic_batch.processing_status \in {"ended", "canceled"}
            THEN [results_stream EXCEPT !.pc = "ended"]
            ELSE [results_stream EXCEPT !.pc = "sleeping"]
    /\ UNCHANGED <<anthropic_batch, batch_results, batch_task, recorded>>
    /\ UNCHANGED nonBatchVars

BatchNext ==
    \/ \E requests \in BatchRequests : CreateMessageBatch(requests)
    \/ BatchTaskStarts
    \/ \E ok \in BOOLEAN : BatchUpstreamAnswers(ok)
    \/ CancelMessageBatch
    \/ DeleteMessageBatch
    \/ BatchTaskCancelled
    \/ OpenResultsStream
    \/ ResultsStreamRuns

(***************************************************************************)
(* Loading the accounts of a KV store (kiro/auth.py).  A key is written as *)
(* its namespace and its suffix (0: the unsuffixed key, n: "<base>:n").    *)
(* A token payload is absent, lacks its refresh_token, or is whole; a      *)
(* registration payload is absent, an empty object, holds a client_id      *)
(* only, or holds client_id and client_secret.                             *)
(***************************************************************************)
\* SQLITE_TOKEN_KEYS and SQLITE_REGISTRATION_KEYS, in their order
TokenNamespaces == <<"kirocli:social", "kirocli:odic", "codewhisperer:odic">>
RegistrationNamespaces == <<"kirocli:odic", "codewhisperer:odic">>

KvKey(ns, suffix) == [ns |-> ns, suffix |-> suffix]
TokenKeys == {KvKey(TokenNamespaces[n], x) : n \in 1..3, x \in 0..MaxSuffix}
RegistrationKeys == {KvKey(RegistrationNamespaces[n], x) : n \in 1..2, x \in 0..MaxSuffix}

\* _iter_auth_kv_rows / _iter_mongodb_auth_docs over the token keys: base key
\* after base key, each "ORDER BY key ASC"
TokenRowOrder ==
    [i \in 1..(3 * (MaxSuffix + 1)) |->
        KvKey(TokenNamespaces[((i - 1) \div (MaxSuffix + 1)) + 1], (i - 1) % (MaxSuffix + 1))]

NoRegistrations == [k \in RegistrationKeys |-> "absent"]
NoRefreshSent == [key |-> KvKey("none", 0), sent |-> "none"]

LoadQuiet ==
    /\ auth_kv = [variant |-> "none", tokens |-> [k \in TokenKeys |-> "absent"],
                  regs |-> NoRegistrations]
    /\ accounts = <<>>
    /\ current = 0
    /\ refresh_protocol = NoRefreshSent

\* a store of either variant with at most MaxLoaded token records
LoadInit ==
    /\ \E variant \in {"sqlite", "mongodb"} :
       \E tokens \in [TokenKeys -> {"absent", "no_refresh_token", "token"}] :
       \E regs \in [RegistrationKeys -> {"absent", "empty", "client_id", "client_id_secret"}] :
          /\ Cardinality({k \in TokenKeys : tokens[k] # "absent"}) <= MaxLoaded
          /\ auth_kv = [variant |-> variant, tokens |-> tokens, regs |-> regs]
    /\ accounts = <<>>
    /\ current = 0
    /\ refresh_protocol = NoRefreshSent

\* _registration_candidates_for_token_key
_registration_candidates_for_token_key(token_key) ==
    IF token_key.ns = "kirocli:social" THEN <<>>
    ELSE LET other == IF token_key.ns = "kirocli:odic" THEN "codewhisperer:odic"
                      ELSE "kirocli:odic"
         IN (IF token_key.suffix # 0 THEN <<KvKey(token_key.ns, token_key.suffix)>> ELSE <<>>)
            \o <<KvKey(token_key.ns, 0), KvKey(other, 0)>>

\* the first candidate whose payload is a non-empty object ("if candidate:")
RECURSIVE FirstRegistration(_, _)
FirstRegistration(candidates, registration_map) ==
    IF candidates = <<>> THEN "absent"
    ELSE IF registration_map[Head(candidates)] \notin {"absent", "empty"}
         THEN registration_map[Head(candidates)]
         ELSE FirstRegistration(Tail(candidates), registration_map)

\* _build_account_from_sqlite_row
_build_account_from_sqlite_row(token_key, token_data, registration_map) ==
    LET registration_data ==
            FirstRegistration(_registration_candidates_for_token_key(token_key), registration_map)
        client_id == registration_data \in {"client_id", "client_id_secret"}
        client_secret == registration_data = "client_id_secret"
    IN [key |-> token_key,
        refresh_token |-> token_data = "token",
        client_id |-> client_id,
        client_secret |-> client_secret,
        auth_type |-> IF client_id /\ client_secret THEN "aws_sso_oidc" ELSE "kiro_desktop"]

\* the accounts parsed from the token rows from position i on; a row without
\* refresh_token is skipped
RECURSIVE ParsedAccounts(_, _, _)
ParsedAccounts(i, tokens, registration_map) ==
    IF i > Len(TokenRowOrder) THEN <<>>
    ELSE LET k == TokenRowOrder[i]
             account == _build_account_from_sqlite_row(k, tokens[k], registration_map)
         IN (IF tokens[k] # "absent" /\ account.refresh_token THEN <<account>> ELSE <<>>)
            \o ParsedAccounts(i + 1, tokens, registration_map)

\* the pool and the active account once the parsed accounts are known
LoadedAs(parsed_accounts) ==
    /\ accounts' = parsed_accounts
    /\ current' = IF parsed_accounts # <<>> THEN 1 ELSE 0
    /\ auth_kv' = [auth_kv EXCEPT !.variant = auth_kv.variant \o ":loaded"]
    /\ UNCHANGED refresh_protocol
    /\ UNCHANGED nonLoadVars

\* _load_credentials_from_sqlite: the registration rows are read first
_load_credentials_from_sqlite ==
    /\ auth_kv.variant = "sqlite"
    /\ LoadedAs(ParsedAccounts(1, auth_kv.tokens, auth_kv.regs))

\* _load_credentials_from_mongodb: registration_map is an empty dict
_load_credentials_from_mongodb ==
    /\ auth_kv.variant = "mongodb"
    /\ LoadedAs(ParsedAccounts(1, auth_kv.tokens, NoRegistrations))

\* a request selects account i: _set_active_account
SetActiveAccount(i) ==
    /\ i \in 1..Len(accounts) /\ i # current
    /\ current' = i
    /\ UNCHANGED <<auth_kv, accounts, refresh_protocol>>
    /\ UNCHANGED nonLoadVars

\* _refresh_token_request routes on the active _auth_type
RefreshTokenRequest ==
    /\ current # 0
    /\ refresh_protocol' = [key |-> accounts[current].key,
                            sent |-> IF accounts[current].auth_type = "aws_sso_oidc"
                                     THEN "_refresh_token_aws_sso_oidc"
                                     ELSE "_refresh_token_kiro_desktop"]
    /\ refresh_protocol' # refresh_protocol
    /\ UNCHANGED <<auth_kv, accounts, current>>
    /\ UNCHANGED nonLoadVars

LoadNext ==
    \/ _load_credentials_from_sqlite
    \/ _load_credentials_from_mongodb
    \/ \E i \in 1..MaxLoaded : SetActiveAccount(i)
    \/ RefreshTokenRequest

vars == <<authVars, streamVars, billVars, routeVars, payloadVars, engineVars, ringVars, rotationVars, wrapperVars, replyVars, toolVars, collectVars, liftVars, preflightVars, policyVars, accessVars, proxyVars, selectVars, fileVars, batchVars, loadVars>>

\* the manager at rest: credentials given directly, no call made
AuthQuiet == AuthInit /\ Len(pool) = 0 /\ active.typ = "kiro_desktop"

\* The authentication manager with its pool and its request tasks.
Init == AuthInit /\ StreamInit /\ BillQuiet /\ RouteInit /\ PayloadInit /\ EngineInit /\ RingQuiet /\ RotationQuiet /\ WrapperInit /\ ReplyInit /\ ToolInit /\ CollectInit /\ LiftInit /\ PreflightQuiet /\ PolicyQuiet /\ AccessInit /\ ProxyInit /\ SelectQuiet /\ FileQuiet /\ BatchInit /\ LoadQuiet
Next == AuthNext
Spec == Init /\ [][Next]_vars

\* The manager of one account (a pool of one, or the credentials given
\* directly), with the other process that shares its credential store.
SingleInit == AuthInit /\ Len(pool) <= 1 /\ StreamInit /\ BillQuiet /\ RouteInit /\ PayloadInit /\ EngineInit /\ RingQuiet /\ RotationQuiet /\ WrapperInit /\ ReplyInit /\ ToolInit /\ CollectInit /\ LiftInit /\ PreflightQuiet /\ PolicyQuiet /\ AccessInit /\ ProxyInit /\ SelectQuiet /\ FileQuiet /\ BatchInit /\ LoadQuiet
SingleNext ==
    \/ AuthNext
    \/ \E k \in 1..MaxPool : ExternalWrite(k)
SpecSingle == SingleInit /\ [][SingleNext]_vars

\* A pool of one or more accounts on which requests select.
InitSelection == AuthInit /\ Len(pool) >= 1 /\ StreamInit /\ BillQuiet /\ RouteInit /\ PayloadInit /\ EngineInit /\ RingQuiet /\ RotationQuiet /\ WrapperInit /\ ReplyInit /\ ToolInit /\ CollectInit /\ LiftInit /\ PreflightQuiet /\ PolicyQuiet /\ AccessInit /\ ProxyInit /\ SelectQuiet /\ FileQuiet /\ BatchInit /\ LoadQuiet
SpecSelection == InitSelection /\ [][SelectionNext]_vars

\* Calls of get_access_token whose issuance requests are all answered.
AttemptsNext ==
    \/ \E t \in Tasks : calls < MaxRefreshCalls /\ CallGetAccessToken(t)
    \/ \E t \in Tasks : RefreshResponse(t)
    \/ Tick
\* Every issuance request returns: weak fairness of the answer, with its
\* enabling condition written out (an answer is enabled exactly while a task
\* holds the lock).
AnswersCome == []<>(lock = 0) \/ []<><<\E t \in Tasks : RefreshResponse(t)>>_vars
SpecAttempts == Init /\ [][AttemptsNext]_vars /\ AnswersCome

\* The manager with its credentials file or its KV store.
InitSave == AuthInit /\ StreamInit /\ BillQuiet /\ RouteInit /\ PayloadInit /\ EngineInit /\ RingQuiet /\ RotationQuiet /\ WrapperInit /\ ReplyInit /\ ToolInit /\ CollectInit /\ LiftInit /\ PreflightQuiet /\ PolicyQuiet /\ AccessInit /\ ProxyInit /\ SelectQuiet /\ FileInit /\ BatchInit /\ LoadQuiet
SpecSave == InitSave /\ [][SaveNext]_vars

\* A KV store and the manager constructed from it.
InitLoad == AuthQuiet /\ StreamInit /\ BillQuiet /\ RouteInit /\ PayloadInit /\ EngineInit /\ RingQuiet /\ RotationQuiet /\ WrapperInit /\ ReplyInit /\ ToolInit /\ CollectInit /\ LiftInit /\ PreflightQuiet /\ PolicyQuiet /\ AccessInit /\ ProxyInit /\ SelectQuiet /\ FileQuiet /\ BatchInit /\ LoadInit
SpecLoad == InitLoad /\ [][LoadNext]_vars

\* One message batch.
InitBatch == AuthQuiet /\ StreamInit /\ BillQuiet /\ RouteInit /\ PayloadInit /\ EngineInit /\ RingQuiet /\ RotationQuiet /\ WrapperInit /\ ReplyInit /\ ToolInit /\ CollectInit /\ LiftInit /\ PreflightQuiet /\ PolicyQuiet /\ AccessInit /\ ProxyInit /\ SelectQuiet /\ FileQuiet /\ BatchInit /\ LoadQuiet
\* the event loop runs the task once it is created, and every upstream call
\* returns or fails
BatchFairness ==
    /\ WF_vars(BatchTaskStarts)
    /\ WF_vars(\E ok \in BOOLEAN : BatchUpstreamAnswers(ok))
SpecBatch == InitBatch /\ [][BatchNext]_vars /\ BatchFairness

\* The manager of a pool whose request tasks can be cancelled.
SpecAtomic == Init /\ [][AtomicNext]_vars

\* The manager of one account whose request tasks can be cancelled.
CancelNext ==
    \/ AuthNext
    \/ \E t \in Tasks : CancelRequest(t)
SpecCancel == SingleInit /\ [][CancelNext]_vars

\* Requests with their payloads, over a pool or a single account.
InitPayload == AuthInit /\ StreamInit /\ BillQuiet /\ RouteInit /\ PayloadInit /\ EngineInit /\ RingQuiet /\ RotationQuiet /\ WrapperInit /\ ReplyInit /\ ToolInit /\ CollectInit /\ LiftInit /\ PreflightQuiet /\ PolicyQuiet /\ AccessInit /\ ProxyInit /\ SelectQuiet /\ FileQuiet /\ BatchInit /\ LoadQuiet
SpecPayload == InitPayload /\ [][PayloadNext]_vars

\* Forced selections on a pool without quarantine.
InitRing == RingInit /\ StreamInit /\ BillQuiet /\ RouteInit /\ PayloadInit /\ EngineInit /\ RotationQuiet /\ WrapperInit /\ ReplyInit /\ ToolInit /\ CollectInit /\ LiftInit /\ PreflightQuiet /\ PolicyQuiet /\ AccessInit /\ ProxyInit /\ SelectQuiet /\ FileQuiet /\ BatchInit /\ LoadQuiet
SpecRing == InitRing /\ [][RingNext]_vars

\* get_access_token on a pool of two device-oauth accounts.
InitRotation == AuthInit /\ Len(pool) = 2 /\ (\A k \in 1..Len(pool) : pool[k].typ = "aws_sso_oidc") /\ StreamInit /\ BillQuiet /\ RouteInit /\ PayloadInit /\ EngineInit /\ RingQuiet /\ RotationQuiet /\ WrapperInit /\ ReplyInit /\ ToolInit /\ CollectInit /\ LiftInit /\ PreflightQuiet /\ PolicyQuiet /\ AccessInit /\ ProxyInit /\ SelectQuiet /\ FileQuiet /\ BatchInit /\ LoadQuiet
SpecRotation == InitRotation /\ [][RotationNext]_vars

\* get_access_token on a KV store of one or two device-oauth accounts, whose
\* rows hold an access token or none, with or without an expiry
InitDegrade ==
    /\ now = Now0
    /\ \E n \in 1..MaxPool, e \in InitExpiries, held \in BOOLEAN :
            /\ pool = [k \in 1..n |-> [InitAccount(k, e, "aws_sso_oidc")
                                        EXCEPT !.tok = IF held THEN [a |-> k, g |-> 0] ELSE NoTok]]
            /\ store = [k \in 1..n |-> [present |-> TRUE, tok |-> pool[k].tok,
                                         exp |-> pool[k].exp, rt |-> pool[k].rt]]
            /\ active = [key |-> 1, tok |-> pool[1].tok, exp |-> pool[1].exp,
                         rt |-> pool[1].rt, typ |-> pool[1].typ]
    /\ rr = -1
    /\ lock = 0
    /\ reqKey = [t \in Tasks |-> 0]
    /\ call = NoCall
    /\ ret = NoRet
    /\ seen = [t \in Tasks |-> [first |-> 0, same |-> TRUE]]
    /\ calls = 0
    /\ gen = [k \in 1..(IF MaxPool > 1 THEN MaxPool ELSE 1) |-> 0]
    /\ hist = NoHist
    /\ lastSel = NoSel
    /\ StreamInit /\ BillQuiet /\ RouteInit /\ PayloadInit /\ EngineInit /\ RingQuiet /\ RotationQuiet /\ WrapperInit /\ ReplyInit /\ ToolInit /\ CollectInit /\ LiftInit /\ PreflightQuiet /\ PolicyQuiet /\ AccessInit /\ ProxyInit /\ SelectQuiet /\ FileQuiet /\ BatchInit /\ LoadQuiet
SpecDegrade == InitDegrade /\ [][RotationNext]_vars

\* One get_access_token call, the answers timed to the millisecond.
InitRefresh == AuthInit /\ StreamInit /\ BillQuiet /\ RouteInit /\ PayloadInit /\ EngineInit /\ RingQuiet /\ RotationQuiet /\ WrapperInit /\ ReplyInit /\ ToolInit /\ CollectInit /\ LiftInit /\ PreflightQuiet /\ PolicyQuiet /\ AccessInit /\ ProxyInit /\ SelectQuiet /\ FileQuiet /\ BatchInit /\ LoadQuiet
SpecRefresh == InitRefresh /\ [][RefreshNext]_vars

\* get_access_token while another process writes the credential store.
CachedNext ==
    \/ \E t \in Tasks : calls < MaxRotationCalls /\ CallGetAccessToken(t)
    \/ \E t \in Tasks : RefreshResponse(t)
    \/ Tick
    \/ \E k \in 1..MaxPool : ExternalWrite(k)
SpecCached == Init /\ [][CachedNext]_vars

\* One streamed response of chat_completions.
InitWrapper == AuthQuiet /\ StreamInit /\ BillQuiet /\ RouteInit /\ PayloadInit /\ EngineInit /\ RingQuiet /\ RotationQuiet /\ WrapperInit /\ ReplyInit /\ ToolInit /\ CollectInit /\ LiftInit /\ PreflightQuiet /\ PolicyQuiet /\ AccessInit /\ ProxyInit /\ SelectQuiet /\ FileQuiet /\ BatchInit /\ LoadQuiet
SpecWrapper == InitWrapper /\ [][WrapperNext]_vars

\* The answers of chat_completions and anthropic_messages.
InitReply == AuthQuiet /\ StreamInit /\ BillQuiet /\ RouteInit /\ PayloadInit /\ EngineInit /\ RingQuiet /\ RotationQuiet /\ WrapperInit /\ ReplyInit /\ ToolInit /\ CollectInit /\ LiftInit /\ PreflightQuiet /\ PolicyQuiet /\ AccessInit /\ ProxyInit /\ SelectQuiet /\ FileQuiet /\ BatchInit /\ LoadQuiet
SpecReply == InitReply /\ [][ReplyNext]_vars

\* One call of the HTTP engine.
InitTool == AuthQuiet /\ StreamInit /\ BillQuiet /\ RouteInit /\ PayloadInit /\ EngineInit /\ RingQuiet /\ RotationQuiet /\ WrapperInit /\ ReplyInit /\ ToolInit /\ CollectInit /\ LiftInit /\ PreflightQuiet /\ PolicyQuiet /\ AccessInit /\ ProxyInit /\ SelectQuiet /\ FileQuiet /\ BatchInit /\ LoadQuiet
SpecTool == InitTool /\ [][ToolNext]_vars

InitEngine == AuthQuiet /\ StreamInit /\ BillQuiet /\ RouteInit /\ PayloadInit /\ EngineInit /\ RingQuiet /\ RotationQuiet /\ WrapperInit /\ ReplyInit /\ ToolInit /\ CollectInit /\ LiftInit /\ PreflightQuiet /\ PolicyQuiet /\ AccessInit /\ ProxyInit /\ SelectQuiet /\ FileQuiet /\ BatchInit /\ LoadQuiet
SpecEngine == InitEngine /\ [][EngineNext]_vars

\* One stream through the encoder.
InitStream == AuthQuiet /\ StreamInit /\ BillQuiet /\ RouteInit /\ PayloadInit /\ EngineInit /\ RingQuiet /\ RotationQuiet /\ WrapperInit /\ ReplyInit /\ ToolInit /\ CollectInit /\ LiftInit /\ PreflightQuiet /\ PolicyQuiet /\ AccessInit /\ ProxyInit /\ SelectQuiet /\ FileQuiet /\ BatchInit /\ LoadQuiet
SpecStream == InitStream /\ [][StreamNext]_vars
SpecStopReason == InitStream /\ [][StopReasonNext]_vars

InitLift == AuthQuiet /\ StreamInit /\ BillQuiet /\ RouteInit /\ PayloadInit /\ EngineInit /\ RingQuiet /\ RotationQuiet /\ WrapperInit /\ ReplyInit /\ ToolInit /\ CollectInit /\ LiftInit /\ PreflightQuiet /\ PolicyQuiet /\ AccessInit /\ ProxyInit /\ SelectQuiet /\ FileQuiet /\ BatchInit /\ LoadQuiet
SpecLift == InitLift /\ [][LiftNext]_vars

InitPreflight == AuthQuiet /\ StreamInit /\ BillQuiet /\ RouteInit /\ PayloadInit /\ EngineInit /\ RingQuiet /\ RotationQuiet /\ WrapperInit /\ ReplyInit /\ ToolInit /\ CollectInit /\ LiftInit /\ PreflightInit /\ PolicyQuiet /\ AccessInit /\ ProxyInit /\ SelectQuiet /\ FileQuiet /\ BatchInit /\ LoadQuiet
SpecPreflight == InitPreflight /\ [][PreflightNext]_vars

InitPolicy == AuthQuiet /\ StreamInit /\ BillInit /\ pricing.billing_multiplier = Dec(11, -1) /\ billing_decimal_places = 6 /\ exact = Dec(1, 0) /\ RouteInit /\ PayloadInit /\ EngineInit /\ RingQuiet /\ RotationQuiet /\ WrapperInit /\ ReplyInit /\ ToolInit /\ CollectInit /\ LiftInit /\ PreflightQuiet /\ PolicyInit /\ AccessInit /\ ProxyInit /\ SelectQuiet /\ FileQuiet /\ BatchInit /\ LoadQuiet
SpecPolicy == InitPolicy /\ [][PolicyNext]_vars

InitAccess == AuthQuiet /\ StreamInit /\ BillQuiet /\ RouteInit /\ PayloadInit /\ EngineInit /\ RingQuiet /\ RotationQuiet /\ WrapperInit /\ ReplyInit /\ ToolInit /\ CollectInit /\ LiftInit /\ PreflightQuiet /\ PolicyQuiet /\ AccessInit /\ ProxyInit /\ SelectQuiet /\ FileQuiet /\ BatchInit /\ LoadQuiet
SpecAccess == InitAccess /\ [][AccessNext]_vars

InitProxy == AuthQuiet /\ StreamInit /\ BillQuiet /\ RouteInit /\ PayloadInit /\ EngineInit /\ RingQuiet /\ RotationQuiet /\ WrapperInit /\ ReplyInit /\ ToolInit /\ CollectInit /\ LiftInit /\ PreflightQuiet /\ PolicyQuiet /\ AccessInit /\ ProxyInit /\ SelectQuiet /\ FileQuiet /\ BatchInit /\ LoadQuiet
SpecProxy == InitProxy /\ [][ProxyNext]_vars

\* Deductions from one user's ledger.
InitBilling == AuthQuiet /\ StreamInit /\ BillInit /\ RouteInit /\ PayloadInit /\ EngineInit /\ RingQuiet /\ RotationQuiet /\ WrapperInit /\ ReplyInit /\ ToolInit /\ CollectInit /\ LiftInit /\ PreflightQuiet /\ PolicyQuiet /\ AccessInit /\ ProxyInit /\ SelectQuiet /\ FileQuiet /\ BatchInit /\ LoadQuiet
SpecBilling == InitBilling /\ [][BillNext]_vars

\* Requests through the route handlers.
InitRoutes == AuthQuiet /\ StreamInit /\ BillQuiet /\ RouteInit /\ PayloadInit /\ EngineInit /\ RingQuiet /\ RotationQuiet /\ WrapperInit /\ ReplyInit /\ ToolInit /\ CollectInit /\ LiftInit /\ PreflightQuiet /\ PolicyQuiet /\ AccessInit /\ ProxyInit /\ SelectQuiet /\ FileQuiet /\ BatchInit /\ LoadQuiet
SpecRoutes == InitRoutes /\ [][RouteNext]_vars

(***************************************************************************)
(* Properties of the authentication manager.                               *)
(***************************************************************************)

\* C1: on a single account, once a refresh has installed a token that is not
\* itself expiring soon, and while no force_refresh is called and no other
\* process writes the store, no further refresh request is sent and every
\* get_access_token returns the token that refresh installed.
C1_SingleFlightAfterSuccess ==
    (/\ Len(pool) <= 1 /\ ~hist.forced /\ hist.ext = 0
     /\ hist.good # NoTok /\ now + TOKEN_REFRESH_THRESHOLD < active.exp)
    => /\ hist.issued = hist.at
       /\ active.tok = hist.good
       /\ (ret.op = "gat" => ret.kind = "tok" /\ ret.tok = hist.good)

\* C1 reached: both tasks have called get_access_token at the same clock
\* value on an expiring token, one request was sent, and the second caller
\* returned the token that request installed.
C1_Witness ==
    /\ Len(pool) <= 1 /\ ~hist.forced /\ hist.ext = 0 /\ now = Now0
    /\ hist.issued = 1 /\ hist.good # NoTok /\ calls = 2 /\ lock = 0
    /\ \A t \in Tasks : seen[t].first # 0
    /\ ret.op = "gat" /\ ret.kind = "tok" /\ ret.tok = hist.good

\* C1 as stated: callers of get_access_token on a single account send
\* exactly one refresh request between them.
C1_ExactlyOneRefresh ==
    (Len(pool) <= 1 /\ ~hist.forced /\ hist.ext = 0) => hist.issued <= 1

C3_ForceRefreshBoundAccount ==
    (ret.op = "fr" /\ ret.kind = "tok" /\ ret.bound # 0) => ret.tok.a = ret.bound

\* C4: a selection returns an account that is in quarantine only when every
\* other account of the pool is in quarantine too.
C4_QuarantineRespected == lastSel.quar => lastSel.others

\* C4 reached: a selection in a pool where another account was in quarantine
\* passed over it.
C4_Witness == lastSel.acct # 0 /\ lastSel.skipped /\ ~lastSel.quar

\* C5 as stated: get_access_token raises only when every account of the pool
\* was tried within the call.
C5_RaisesOnlyWhenAllTried ==
    (ret.op = "gat" /\ ret.kind = "err") => ret.untried = 0

(***************************************************************************)
(* Properties of the Anthropic SSE encoder.                                *)
(***************************************************************************)
Finished == spc \in {"ended", "failed"}

\* C6 as stated: a finished stream, ended normally or by a mid-stream error,
\* has message_start first and message_stop last, and an error event in it
\* is followed by message_stop.
C6_StartFirstStopLast ==
    Finished =>
        /\ events[1].type = "message_start"
        /\ events[Len(events)].type = "message_stop"
        /\ \A i \in 1..Len(events) :
              events[i].type = "error" =>
                  \E j \in (i + 1)..Len(events) : events[j].type = "message_stop"

Starts(i) == {k \in 1..Len(events) : events[k].type = "content_block_start"
                                       /\ events[k].index = i}
Stops(i) == {k \in 1..Len(events) : events[k].type = "content_block_stop"
                                      /\ events[k].index = i}

\* C7 as stated: in a finished stream, ended normally or by an error, every
\* content_block_start of an index has exactly one later content_block_stop
\* of that index, and every content_block_stop has an earlier start.
C7_BlocksMatched ==
    Finished =>
        \A i \in 0..content_block_index :
            /\ \A k \in Starts(i) : Cardinality({j \in Stops(i) : j > k}) = 1
            /\ \A j \in Stops(i) : \E k \in Starts(i) : k < j

\* C11 as stated: when the task that awaits a refresh response is cancelled
\* and the endpoint issued a token for that request, the refresh has completed:
\* the issued token is the manager's access token.
C11_RefreshSurvivesCancel ==
    (ret.kind = "cancelled" /\ ret.tok # NoTok /\ lock = 0)
    => active.tok = ret.tok

\* C12 as stated: the payload sent with a token carries a profile identifier
\* only if the token's account uses the desktop mechanism, and then that
\* account's profile.
C12_ProfileMatchesTokenAccount ==
    (ret.op = "gat" /\ ret.kind = "tok" /\ payload[ret.task].profile # 0)
    => /\ AccountType(ret.tok.a) = "kiro_desktop"
       /\ payload[ret.task].profile = ret.tok.a

(***************************************************************************)
(* Properties of billing and of the ledger.                                *)
(***************************************************************************)

\* C8 as stated: a deduction succeeds only if the balance is at least the
\* charge and then leaves exactly balance - charge; one that finds the
\* balance below the charge fails and leaves the balance as it was.
C8_ConditionalExactDeduct ==
    /\ lastDeduct.kind = "deducted" =>
          /\ ~DecLess(lastDeduct.exactBefore, lastDeduct.charge)
          /\ balance = ToDouble(DecSub(lastDeduct.exactBefore, lastDeduct.charge))
    /\ lastDeduct.kind = "insufficient" => balance = lastDeduct.before
    /\ (lastDeduct.kind \in {"deducted", "insufficient"}
            /\ DecLess(lastDeduct.exactBefore, lastDeduct.charge))
          => lastDeduct.kind = "insufficient"

\* the charge by the closed formula, in exact arithmetic
ClosedFormCharge(row, usage, decimal_places) ==
    LET t(f) == Dec(usage[f], 0)
        sum == DecAddExact(
                   DecAddExact(
                       DecAddExact(DecMulExact(t("prompt_tokens"), row.input_price_per_mtok),
                                   DecMulExact(t("completion_tokens"),
                                               row.output_price_per_mtok)),
                       DecMulExact(t("cache_write_tokens"), row.cache_write_price_per_mtok)),
                   DecMulExact(t("cache_hit_tokens"), row.cache_hit_price_per_mtok))
        charged == DecMulExact(DecDivPow10Exact(sum, 6), row.billing_multiplier)
    IN QuantizeHalfUp(DecMax0(charged), IF decimal_places > 0 THEN decimal_places ELSE 0)

\* C9 as stated: with billing enabled the charge is the closed formula,
\* clamped at 0 and rounded half-up to the configured places.
C9_ChargeIsClosedForm ==
    (billing_enabled /\ lastDeduct.kind # "none")
    => lastDeduct.charge = ClosedFormCharge(pricing, lastDeduct.usage, billing_decimal_places)

(***************************************************************************)
(* Properties of the request handlers.                                     *)
(***************************************************************************)

\* C10 as stated: when a request has ended, on whatever path, the HTTP
\* client created for it is closed.
C10_ClientClosedOnExit ==
    \A r \in Requests : req[r].pc = "done" => req[r].client # "open"

\* the positions of hc_log holding an entry of one type
Entries(type) == {i \in 1..Len(hc_log) : hc_log[i].type = type}

\* the positions of hc_log where an upstream call ended in one of the results
Results(whats) == {i \in Entries("resp") : hc_log[i].what \in whats}

\* C13: when an upstream call returns 403, force_refresh is called exactly
\* once and the same request is sent again carrying the new token, with no
\* sleep in between and with the retry counter it had before.
C13_RefreshOnceOn403 ==
    /\ Cardinality(Entries("refresh")) = IF Results({"403"}) = {} THEN 0 ELSE 1
    /\ \A i \in Results({"403"}) :
         (\A j \in Results({"403"}) : i <= j) =>
            /\ i + 2 <= Len(hc_log)
            /\ hc_log[i - 1].type = "send"
            /\ hc_log[i + 1] = Refreshed
            /\ hc_log[i + 2] = Sent(hc_log[i - 1].attempt, TRUE)

\* a call that met a 403 after a counted failure and then succeeded
C13_Witness ==
    /\ Results({"403"}) # {}
    /\ hc_attempt > 0
    /\ hc_result.kind = "returned" /\ hc_result.status = 200

\* C14: in a non-streaming call, the failure that follows i earlier
\* retryable failures (429, 5xx, timeout, transport error) is followed by a
\* sleep of BASE_RETRY_DELAY * 2^i and the next attempt, and the failure
\* that makes MAX_RETRIES raises a 502 that carries the attempt count.
C14_ExponentialBackoffThen502 ==
    ~hc_stream =>
      /\ \A i \in Results({"429", "500", "timeout", "neterr"}) :
           LET n == Cardinality({j \in Results({"429", "500", "timeout", "neterr"}) : j < i})
           IN  IF n + 1 < MAX_RETRIES
               THEN /\ i + 2 <= Len(hc_log)
                    /\ hc_log[i + 1] = Slept(BASE_RETRY_DELAY * Pow(2, n))
                    /\ hc_log[i + 2].type = "send"
               ELSE /\ i = Len(hc_log)
                    /\ hc_result = [kind |-> "raised", status |-> 502, attempts |-> MAX_RETRIES]
      /\ hc_result.kind = "raised" =>
           Cardinality(Results({"429", "500", "timeout", "neterr"})) = MAX_RETRIES

\* a non-streaming call that used up its attempts
C14_Witness ==
    /\ ~hc_stream
    /\ hc_result.kind = "raised"
    /\ Cardinality(Entries("sleep")) = MAX_RETRIES - 1

\* C15: in a streaming call a first-token timeout is followed at once by the
\* next attempt, with no sleep; when the attempts that failed number
\* FIRST_TOKEN_MAX_RETRIES a 504 is raised, after exactly that many requests
\* if all of them timed out; and nothing is sent once a body frame has been
\* delivered.
C15_FirstTokenRetryThen504 ==
    hc_stream =>
      /\ \A i \in Results({"timeout"}) :
           IF hc_log[i - 1].attempt + 1 < FIRST_TOKEN_MAX_RETRIES
           THEN /\ i + 1 <= Len(hc_log)
                /\ hc_log[i + 1].type = "send"
           ELSE /\ i = Len(hc_log)
                /\ hc_result = [kind |-> "raised", status |-> 504,
                                attempts |-> FIRST_TOKEN_MAX_RETRIES]
      /\ (hc_result.kind = "raised" /\ Entries("resp") = Results({"timeout"})) =>
           Cardinality(Entries("send")) = FIRST_TOKEN_MAX_RETRIES
      /\ \A i \in Entries("byte") : \A j \in Entries("send") : j < i

\* a streaming call whose every attempt timed out
C15_Witness ==
    /\ hc_stream
    /\ hc_result.kind = "raised"
    /\ Entries("resp") = Results({"timeout"})

\* how often account a was chosen
Chosen(a) == Cardinality({i \in 1..Len(picks) : picks[i] = a})

\* C16: after K forced selections on a pool of N accounts that stay eligible
\* every account was chosen between K/N - 1 and K/N + 1 times, and each
\* selection chose the account after the one chosen before, wrapping around.
C16_RoundRobinFair ==
    LET N == Len(pool)
        K == Len(picks)
    IN /\ \A a \in 1..N : /\ N * Chosen(a) >= K - N
                          /\ N * Chosen(a) <= K + N
       /\ \A i \in 1..K : picks[i] = ((i - 1) % N) + 1

\* all the selections made on the largest pool
C16_Witness ==
    /\ Len(pool) = MaxRing
    /\ Len(picks) = MaxSelections
    /\ \A i \in 1..Len(pool) : ~InQuarantine(pool[i], now)

\* the answers given to the latest call, in order
Answered == SelectSeq(answers, LAMBDA x : x.call = calls)

\* the latest call had account a answer 400 to the refresh request and 400
\* again to the retry after the reload
TwiceRefused(a) ==
    /\ Len(Answered) >= 2
    /\ Answered[1].a = a /\ Answered[1].o = "h400"
    /\ Answered[2].a = a /\ Answered[2].o = "h400"

\* the latest call then had account b answer 200
ThenIssued(b) ==
    /\ Len(Answered) = 3
    /\ Answered[3].a = b
    /\ Answered[3].o \in {"ok", "short"}

\* what C17 says follows: A is in quarantine and the call has gone on to B;
\* once B has issued a token, the call has returned it, the request is bound
\* to B and the cursor stands at B
Rotated(a, b) ==
    /\ pool[a].quar # NoQuar
    /\ reqKey[IF lock # 0 THEN lock ELSE ret.task] = b
    /\ ThenIssued(b) =>
         /\ lock = 0
         /\ ret.kind = "tok" /\ ret.tok = active.tok /\ ret.tok.a = b /\ ret.tok.g > 0
         /\ reqKey[ret.task] = b
         /\ rr = b - 1

\* C17 as stated: with a pool of two device-oauth accounts on a KV store,
\* whenever A answers 400 to the refresh and to the retry after the reload,
\* A is quarantined and the same call selects B, and when B's refresh
\* succeeds the call returns B's token with the request bound to B and the
\* cursor advanced.
C17_RotatesAfterTwo400 ==
    \A a, b \in 1..Len(pool) : (a # b /\ TwiceRefused(a)) => Rotated(a, b)

\* the access token the manager held when an answer came was usable:
\* present and not yet expired
Usable(x) == x.tok # NoTok /\ x.at < x.exp

\* C17 with its condition: the same, when A's cached access token is absent
\* or expired at the second 400 and B is not in quarantine then.
C17_RotatesAfterTwo400Unusable ==
    \A a, b \in 1..Len(pool) :
        (a # b /\ TwiceRefused(a) /\ ~Usable(Answered[2]) /\ b \notin Answered[2].quar)
        => Rotated(a, b)

\* A refused twice, B issued, the call returned
C17_Witness ==
    \E a, b \in 1..Len(pool) :
        /\ a # b /\ TwiceRefused(a) /\ ThenIssued(b)
        /\ ~Usable(Answered[2]) /\ b \notin Answered[2].quar
        /\ lock = 0 /\ ret.tok.a = b

\* the call's refresh request was sent because the cached token was expiring
\* soon, and the answer to it was a 200 with an accessToken
RefreshSucceeded ==
    /\ lock = 0
    /\ Len(Answered) >= 1
    /\ Answered[1].o \in {"ok", "short"}
    /\ Answered[1].tok = NoTok \/ Answered[1].exp <= Answered[1].at + TOKEN_REFRESH_THRESHOLD

\* one request was issued and the call returned the token of the answer
OneRequestTokenReturned ==
    /\ Len(Answered) = 1
    /\ hist.issued = Len(answers)
    /\ ret.op = "gat" /\ ret.kind = "tok"
    /\ ret.tok = Answered[1].issued
    /\ active.tok = Answered[1].issued
    /\ active.exp * 1000 <= Answered[1].expires_at
    /\ Answered[1].expires_at < (active.exp + 1) * 1000

\* C18 as stated: when the cached token is expiring soon and the refresh
\* succeeds, exactly one refresh request is issued, get_access_token returns
\* the accessToken of the response, and the stored expiry is the time the
\* response was received + expiresIn - 60 s (expiresIn 3600 when omitted).
C18_ExpiryFromReceiveTime ==
    RefreshSucceeded =>
        /\ OneRequestTokenReturned
        /\ Answered[1].expires_at =
             Answered[1].at * 1000 + Answered[1].frac
             + ((IF Answered[1].o = "ok" THEN 3600 ELSE ShortExpiresIn) - 60) * 1000

\* C18 with the time as the desktop mechanism takes it: the same, the time
\* of receipt cut to the whole second when the account uses the desktop
\* refresh mechanism.
C18_ExpiryFromReceiveSecond ==
    RefreshSucceeded =>
        /\ OneRequestTokenReturned
        /\ Answered[1].expires_at =
             Answered[1].at * 1000
             + (IF Answered[1].typ = "kiro_desktop" THEN 0 ELSE Answered[1].frac)
             + ((IF Answered[1].o = "ok" THEN 3600 ELSE ShortExpiresIn) - 60) * 1000

\* a token with 60 s left, refreshed by an answer that names no expiresIn and
\* comes half a second past the second
C18_Witness ==
    /\ RefreshSucceeded
    /\ Answered[1].tok # NoTok /\ Answered[1].exp = Answered[1].at + 60
    /\ Answered[1].o = "ok" /\ Answered[1].frac = 500
    /\ Answered[1].typ = "kiro_desktop"

\* the credentials a call of task t finds selected: those of the account the
\* request is bound to after the selection, or the manager's own without a pool
SelectedBy(t) ==
    IF Len(pool) = 0 THEN [tok |-> active.tok, exp |-> active.exp, rt |-> active.rt]
    ELSE [tok |-> pool[reqKey'[t]].tok, exp |-> pool[reqKey'[t]].exp,
          rt |-> pool[reqKey'[t]].rt]

\* the same credentials after the call
KeptBy(t) ==
    IF Len(pool) = 0 THEN [tok |-> active'.tok, exp |-> active'.exp, rt |-> active'.rt]
    ELSE [tok |-> pool'[reqKey'[t]].tok, exp |-> pool'[reqKey'[t]].exp,
          rt |-> pool'[reqKey'[t]].rt]

\* C19: a get_access_token call that finds the selected account's access
\* token present and not expiring soon returns that token, sends no refresh
\* request, leaves the credential store as it is and as unread as it was (what
\* another process wrote there does not show), and leaves the account's
\* access token, expiry and refresh secret unchanged.
C19_CachedTokenNoIO ==
    [][\A t \in Tasks :
         (/\ CallGetAccessToken(t)
          /\ SelectedBy(t).tok # NoTok
          /\ SelectedBy(t).exp # NoExp
          /\ SelectedBy(t).exp > now + TOKEN_REFRESH_THRESHOLD)
         => /\ lock' = 0
            /\ ret'.task = t /\ ret'.kind = "tok" /\ ret'.tok = SelectedBy(t).tok
            /\ hist'.issued = hist.issued
            /\ gen' = gen
            /\ store' = store
            /\ KeptBy(t) = SelectedBy(t)
            /\ active'.tok = SelectedBy(t).tok
            /\ active'.exp = SelectedBy(t).exp
            /\ active'.rt = SelectedBy(t).rt]_vars

\* a cached token was returned although the store holds a newer one of the
\* same account, and no refresh request was ever sent
C19_Witness ==
    /\ ret.op = "gat" /\ ret.kind = "tok"
    /\ hist.issued = 0
    /\ Len(pool) > 0
    /\ store[ret.tok.a].tok # ret.tok
    /\ pool[ret.tok.a].tok = ret.tok

\* C20: when the upstream stream has raised an error after streaming began
\* and the response has been closed on a client that is still connected,
\* the last frame the client received is "data: [DONE]".
C20_DoneAfterStreamError ==
    (/\ wrapper.pc = "closed"
     /\ wrapper.streaming_error
     /\ connected)
    => /\ received # <<>>
       /\ received[Len(received)] = DONE
       /\ \A i \in 1..(Len(received) - 1) : received[i] # DONE
       /\ Len(received) = wrapper.yielded + 1

\* the stream broke after two chunks had reached the client
C20_Witness ==
    /\ wrapper.pc = "closed"
    /\ wrapper.exit = "stream_raised"
    /\ connected
    /\ Len(received) = 3

\* C21 as stated: a request whose upstream call ended with a response of
\* status 429, 401 or 403 is answered with that same status, by
\* chat_completions and by anthropic_messages alike.
C21_StatusPassedThrough ==
    \A r \in Requests :
        (/\ reply[r].pc = "done"
         /\ reply[r].upstream.kind = "response"
         /\ reply[r].upstream.status \in {429, 401, 403})
        => reply[r].status_code = reply[r].upstream.status

(***************************************************************************)
(* C22                                                                      *)
(***************************************************************************)
ToolUseStarts == {p \in DOMAIN blocks : blocks[p].type = "content_block_start" /\ blocks[p].block = "tool_use"}
CallsBegun == {delivered[i].call : i \in DOMAIN delivered}
CallsComplete == {delivered[i].call : i \in {j \in DOMAIN delivered : delivered[j].last}}

\* C22: for each tool call of the upstream stream the encoder emits exactly
\* one content_block_start of type tool_use, carrying the call's id, its name
\* and its fully parsed input, immediately followed by the content_block_stop
\* of the same index, also when the call's arguments arrive as several delta
\* fragments; the indices of the tool blocks are strictly increasing.
C22_OneToolUseBlockPerToolCall ==
    /\ Cardinality(ToolUseStarts) = Cardinality(CallsBegun)
    /\ \A k \in CallsComplete :
            \E p \in ToolUseStarts :
                blocks[p].id = k /\ blocks[p].name = k /\ blocks[p].input = "parsed"
    /\ \A p \in ToolUseStarts :
            /\ p + 1 \in DOMAIN blocks
            /\ blocks[p + 1].type = "content_block_stop"
            /\ blocks[p + 1].index = blocks[p].index
    /\ \A p, q \in ToolUseStarts : p < q => blocks[p].index < blocks[q].index

(***************************************************************************)
(* C23                                                                      *)
(***************************************************************************)
StopReasonFor(finish, tools_seen) ==
    IF finish = "length" THEN "max_tokens"
    ELSE IF finish = "tool_calls" \/ tools_seen THEN "tool_use"
    ELSE "end_turn"

\* C23: the stop_reason of the message_delta of a stream and the stop_reason
\* of a collected message are max_tokens when the finish reason is length,
\* otherwise tool_use when the finish reason is tool_calls or a tool call was
\* seen, otherwise end_turn.
C23_StopReasonMapping ==
    /\ \A p \in DOMAIN events :
            events[p].type = "message_delta"
                => events[p].stop = StopReasonFor(finish_reason, tool_calls_seen > 0)
    /\ collected.pc = "done"
            => collected.message.stop_reason
                    = StopReasonFor(collected.response.finish, collected.response.tools > 0)

\* a stream that ended at length after a tool call, and a collected response
\* with a tool call and a finish reason of its own
C23_Witness ==
    /\ spc = "ended" /\ finish_reason = "length" /\ tool_calls_seen > 0
    /\ \E p \in DOMAIN events : events[p].type = "message_delta" /\ events[p].stop = "max_tokens"
    /\ collected.pc = "done" /\ collected.response.finish = "content_filter"
    /\ collected.response.tools > 0 /\ collected.message.stop_reason = "tool_use"

(***************************************************************************)
(* C24                                                                      *)
(***************************************************************************)
IsToolResult(block) == block.type = "tool_result"
IsText(block) == block.type = "text"
IsToolMessage(m) == m.role = "tool"
IsUserMessage(m) == m.role = "user"

\* C24: every tool_result block of a user message becomes its own tool
\* message whose tool_call_id is the block's tool_use_id, in block order; the
\* text blocks are gathered into one user message; a user message holding
\* only tool_result blocks yields no user message.
C24_ToolResultsBecomeToolMessages ==
    (lifted.pc = "done" /\ lifted.content.kind = "list") =>
        /\ Len(SelectSeq(lifted.out, IsToolMessage)) = Len(SelectSeq(lifted.content.blocks, IsToolResult))
        /\ \A i \in 1..Len(SelectSeq(lifted.out, IsToolMessage)) :
                SelectSeq(lifted.content.blocks, IsToolResult)[i].tool_use_id # "missing"
                    => SelectSeq(lifted.out, IsToolMessage)[i].tool_call_id
                            = SelectSeq(lifted.content.blocks, IsToolResult)[i].tool_use_id
        /\ Len(SelectSeq(lifted.out, IsUserMessage)) <= 1
        /\ SelectSeq(lifted.content.blocks, IsText) # <<>>
                => /\ Len(SelectSeq(lifted.out, IsUserMessage)) = 1
                   /\ \A i \in 1..Len(SelectSeq(lifted.content.blocks, IsText)) :
                        \E j \in DOMAIN SelectSeq(lifted.out, IsUserMessage)[1].content :
                            SelectSeq(lifted.out, IsUserMessage)[1].content[j]
                                = SelectSeq(lifted.content.blocks, IsText)[i].text
        /\ (\A i \in DOMAIN lifted.content.blocks : IsToolResult(lifted.content.blocks[i]))
                => SelectSeq(lifted.out, IsUserMessage) = <<>>
        /\ Len(lifted.out) = Len(SelectSeq(lifted.out, IsToolMessage)) + Len(SelectSeq(lifted.out, IsUserMessage))

\* two tool results with different ids around a text block
C24_Witness ==
    /\ lifted.pc = "done" /\ lifted.content.kind = "list" /\ Len(lifted.content.blocks) = 3
    /\ lifted.content.blocks[1].type = "tool_result" /\ lifted.content.blocks[1].tool_use_id = "call_2"
    /\ lifted.content.blocks[2].type = "text"
    /\ lifted.content.blocks[3].type = "tool_result" /\ lifted.content.blocks[3].tool_use_id = "call_1"
    /\ Len(lifted.out) = 3
    /\ lifted.out[2].tool_call_id = "call_2" /\ lifted.out[3].tool_call_id = "call_1"

(***************************************************************************)
(* C25                                                                      *)
(***************************************************************************)
EnforcementOn == enforcement.BILLING_ENABLED /\ enforcement.BILLING_ENFORCE_SUFFICIENT_CREDITS
PreflightFailed == preflight.result = "InsufficientCreditsError"

\* C25 as claimed: the preflight fails with insufficient-credits exactly when
\* enforcement is on and the balance (0 for a user without a record) is less
\* than the required amount, and it never changes the ledger.
C25_FailsIffBalanceLess ==
    /\ [](preflight.n > 0 =>
            (PreflightFailed <=> (EnforcementOn /\ credits_doc.balance < preflight.required_credits)))
    /\ [][credits_doc' = credits_doc]_vars

\* C25 as the code has it: the preflight fails exactly when enforcement is on,
\* the required amount is above 0, and the balance cannot be read (no record,
\* or the lookup failed) or is less than the required amount; it never
\* changes the ledger.
C25_FailsIffUnreadOrLess ==
    /\ [](preflight.n > 0 =>
            (PreflightFailed <=>
                /\ EnforcementOn
                /\ preflight.required_credits > 0
                /\ \/ preflight.lookup = "error"
                   \/ ~credits_doc.found
                   \/ credits_doc.balance < preflight.required_credits))
    /\ [][credits_doc' = credits_doc]_vars

\* a preflight that failed on a balance below the required amount, after one
\* that passed
C25_Witness ==
    /\ preflight.n = 2 /\ PreflightFailed /\ EnforcementOn /\ preflight.lookup = "ok"
    /\ credits_doc.found /\ credits_doc.balance = 1 /\ preflight.required_credits = 2

(***************************************************************************)
(* C26                                                                      *)
(***************************************************************************)
UnknownModel(model_id) ==
    Lower(model_id) \notin PricingIndexKeys /\ _normalize_pricing_key(model_id) \notin PricingIndexKeys

\* what the three policies promise for the last call, made for an unknown model
PolicyKept ==
    /\ unknown_model_policy = "reject"
            => model_charge.result = "UnknownModelPricingError" /\ model_charge.updates = 0 /\ balance = model_charge.before
    /\ unknown_model_policy = "free"
            => model_charge.result = "zero" /\ model_charge.charge.c = <<>> /\ model_charge.updates = 0
                    /\ balance = model_charge.before
    /\ unknown_model_policy \notin {"reject", "free"}
            => model_charge.result # "UnknownModelPricingError"
                    /\ model_charge.charge = calculate_charge_from_usage(_default_pricing, model_charge.usage, TRUE,
                                                                    billing_decimal_places)

\* C26 as claimed: for a model in the pricing table under neither its raw nor
\* its normalized id, policy reject makes charge and deduct raise the
\* unknown-model error with the ledger untouched, policy free charges 0 with
\* no ledger update, and any other policy applies the default price row.
C26_UnknownModelPolicy ==
    (model_charge.n > 0 /\ UnknownModel(model_charge.model_id)) => PolicyKept

\* C26 as the code has it: the same while billing is enabled; with billing
\* disabled nothing is model_charge, nothing is raised and the ledger is untouched
\* under every policy.
C26_UnknownModelPolicyWhenEnabled ==
    (model_charge.n > 0 /\ UnknownModel(model_charge.model_id)) =>
        IF billing_enabled THEN PolicyKept
        ELSE model_charge.result = "zero" /\ model_charge.updates = 0 /\ balance = model_charge.before

\* an unknown model model_charge at the default row and deducted
C26_Witness ==
    /\ model_charge.n > 0 /\ UnknownModel(model_charge.model_id) /\ billing_enabled
    /\ unknown_model_policy = "default" /\ model_charge.result = "deducted" /\ balance # model_charge.before

(***************************************************************************)
(* C27                                                                      *)
(***************************************************************************)
\* C27: a request to an authenticated endpoint is accepted if and only if it
\* carries the correct local API key as Authorization: Bearer <key> or as
\* x-api-key: <key>; a correct x-api-key is accepted whatever the
\* Authorization header holds, and every authenticated endpoint accepts both
\* forms.
C27_AcceptedIffCorrectKey ==
    access.n > 0 =>
        (access.status # 401 <=> (access.authorization = "Bearer key" \/ access.x_api_key = PROXY_API_KEY))

(***************************************************************************)
(* C28                                                                      *)
(***************************************************************************)
\* C28: a streaming chat completion of the forwarding proxy closes both the
\* upstream response and the HTTP client on every exit path: stream fully
\* relayed, upstream status >= 400, timeout or network error while
\* connecting, client disconnect before or during the relay.
C28_ClosedOnEveryExit ==
    proxy.pc = "done" => (proxy.client = "closed" /\ proxy.response \in {"none", "closed"})

(***************************************************************************)
(* C30                                                                      *)
(***************************************************************************)
LastAnswer == Answered[Len(Answered)]

\* the latest answer of the latest call is the 400 to the retry that followed
\* the reload, from account a
RefusedAfterReload(a) ==
    /\ Len(Answered) >= 2
    /\ LastAnswer.a = a /\ LastAnswer.o = "h400"
    /\ Answered[Len(Answered) - 1].a = a /\ Answered[Len(Answered) - 1].o = "h400"
    /\ Len(Answered) >= 3 => Answered[Len(Answered) - 2].a # a

CallOver == lock = 0 /\ ret.op = "gat"

\* C30: on a KV-backed store, when the refresh of the selected account fails
\* with 400 after the reload-and-retry, get_access_token returns the cached
\* access token if and only if it is present and its recorded expiry is later
\* than now (a token without a recorded expiry is never returned this way);
\* otherwise the account is put aside and the call goes on to the next
\* account when the pool has more than one, ending with the error when no
\* account is left, and raises at once when the pool has one account.
C30_DegradeIffUsable ==
    \A a \in 1..Len(pool) :
        RefusedAfterReload(a) =>
            IF LastAnswer.tok # NoTok /\ LastAnswer.exp # NoExp /\ LastAnswer.exp > LastAnswer.at
            THEN CallOver /\ ret.kind = "tok" /\ ret.tok = LastAnswer.tok /\ reqKey[ret.task] = a
            ELSE /\ CallOver => (ret.kind = "err" \/ (ret.kind = "tok" /\ reqKey[ret.task] # a))
                 /\ Len(pool) = 1 => (CallOver /\ ret.kind = "err")
                 /\ Len(pool) > 1 =>
                        /\ (\E b \in 1..Len(pool) : b # a /\ b \notin LastAnswer.quar) => pool[a].quar # NoQuar
                        /\ ~CallOver => reqKey[lock] # a
                        /\ (CallOver /\ ret.kind = "err") => Len(Answered) >= Len(pool) + 1

\* the cached token was returned after the second 400
C30_Witness ==
    \E a \in 1..Len(pool) :
        /\ RefusedAfterReload(a)
        /\ LastAnswer.tok # NoTok /\ LastAnswer.exp # NoExp /\ LastAnswer.exp > LastAnswer.at
        /\ CallOver /\ ret.kind = "tok" /\ ret.tok = LastAnswer.tok

\* the access token, expiry and refresh secret of a record
Triple(r) == <<r.tok, r.exp, r.rt>>

\* what is held of account k: its pool entry, its row of the store, and the
\* active fields while k is the active account (k = 0: no pool)
RecordsOf(p, act, st, k) ==
    {Triple(p[i]) : i \in {j \in 1..Len(p) : p[j].key = k}}
        \cup {Triple(st[i]) : i \in {j \in DOMAIN st : j = k /\ st[j].present}}
        \cup (IF act.key = k THEN {Triple(act)} ELSE {})

\* Every record of every account is after the step what some record of that
\* account was before it, or the one whole record a response installed: a
\* token not held before, the expiry of that response, and the refresh
\* secret of that response or the one kept.
WholeRecords ==
    \A k \in 0..MaxPool :
        LET old == RecordsOf(pool, active, store, k)
            new == RecordsOf(pool', active', store', k) \ old
        IN /\ Cardinality(new) <= 1
           /\ \A n \in new :
                /\ n[1] # NoTok /\ n[1] \notin {o[1] : o \in old}
                /\ n[2] \in {now + DefaultExpiresIn - ExpiryBuffer,
                             now + ShortExpiresIn - ExpiryBuffer}
                /\ n[3] = n[1] \/ n[3] \in {o[3] : o \in old}

\* C29: a refresh is atomic with respect to every other operation of the
\* manager.  While a task awaits the answer to its issuance request no call
\* of get_access_token, force_refresh or the profile lookup starts, only that
\* task sends a further request, and the pool, the active fields and the
\* store change only by that task's own continuation; every step leaves
\* every record of an account either as some record of it was or wholly as
\* the response made it (token, expiry and refresh secret together), never a
\* mix; and the step that cancels the task changes no record in memory or
\* in the store.
C29_RefreshAtomic ==
    [][/\ lock # 0 =>
            /\ calls' = calls /\ lock' \in {lock, 0}
            /\ (lock' = lock /\ call' = call) =>
                   /\ pool' = pool /\ active' = active /\ store' = store
                   /\ hist'.issued = hist.issued
       /\ WholeRecords
       /\ (ret'.kind = "cancelled" /\ ret' # ret) =>
              pool' = pool /\ active' = active /\ store' = store]_vars

\* C29 witness: while task 1 awaited its answer nobody else ran, and its
\* refresh then put the same new token, expiry and refresh secret into the
\* active fields, the pool entry and the store, beside an account of the
\* pool that kept its records.
C29_Witness ==
    /\ Len(pool) = 2 /\ lock = 0 /\ ret.kind = "tok" /\ ret.op \in {"gat", "fr"}
    /\ active.tok = ret.tok /\ ret.tok.g > 0 /\ active.rt = active.tok
    /\ \E i \in 1..2 : /\ pool[i].key = active.key
                       /\ Triple(pool[i]) = Triple(active)
                       /\ Triple(store[i]) = Triple(active)
    /\ \E i \in 1..2 : pool[i].key # active.key /\ pool[i].tok.g = 0

\* C31: a selection on a non-empty pool always returns an account; when no
\* account of the pool is eligible every quarantine is cleared and the
\* account following the cursor is returned; after every selection the
\* cursor is an index of the pool and the request's key is the key of the
\* returned account.
C31_SelectionReturnsAccount ==
    [][chosen'.flip # chosen.flip =>
          LET total == Len(pool)
              s == chosen'.sel
          IN /\ s \in 1..total
             /\ rr' \in 0..(total - 1)
             /\ reqKey'[chosen'.task] = pool'[s].key
             /\ chosen'.swept =>
                    /\ \A i \in 1..total : pool'[i].quar = NoQuar
                    /\ s = ((rr + 1) % total) + 1
                    /\ rr' = s - 1]_vars

\* C31 witness: both accounts of a pool of two were in quarantine when the
\* selection was made; it returned an account and no quarantine is left.
C31_Witness ==
    /\ Len(pool) = 2 /\ chosen.swept /\ chosen.sel \in 1..2
    /\ reqKey[chosen.task] = pool[chosen.sel].key
    /\ \A i \in 1..2 : pool[i].quar = NoQuar

\* the step in which a call returns the token that its refresh request has
\* just been issued
RefreshSucceeds == gen' # gen /\ ret' # ret /\ ret'.kind = "tok"

\* C32: after any successful refresh of an account, through get_access_token
\* or through force_refresh, that account's quarantine_until is absent.
C32_RefreshClearsQuarantine ==
    [][RefreshSucceeds =>
          \A i \in 1..Len(pool') :
              pool'[i].key = ret'.tok.a => pool'[i].quar = NoQuar]_vars

\* max(1, pool_size)
MaxAttempts == IF Len(pool) > 1 THEN Len(pool) ELSE 1

\* C33: one call of get_access_token makes at most max(1, pool_size) passes,
\* each pass sends at most two issuance requests, the second only after a
\* reload from a KV store (which follows a 400), so the call sends at most
\* 2 * max(1, pool_size) requests; and when every request is answered the
\* call ends, with a token or with an error.
C33_BoundedAttempts ==
    /\ [](call.op = "gat" =>
            /\ call.att < MaxAttempts
            /\ call.sent <= 2 * (call.att + 1)
            /\ call.sent <= 2 * MaxAttempts
            /\ call.stage = 2 => (Len(pool) > 0 /\ active.typ = "aws_sso_oidc"))
    /\ (lock # 0 ~> (lock = 0 /\ ret.op = "gat" /\ ret.kind \in {"tok", "err"}))

\* C33 witness: a call on a pool of two accounts has sent its fourth request,
\* the retry of its second pass.
C33_Witness ==
    Len(pool) = 2 /\ call.op = "gat" /\ call.att = 1 /\ call.stage = 2 /\ call.sent = 4

\* the rows of the store that the step wrote
RowsWritten == {k \in DOMAIN store : store'[k] # store[k] /\ store'[k].present}

\* C34: persisting a refreshed record writes to exactly one credential
\* record that already exists in the store, the active account's when that
\* exists, and never creates a new key or a new file; when no candidate key
\* exists the store is left unchanged.
C34_SaveOnlyExisting ==
    [][/\ Cardinality(RowsWritten) <= 1
       /\ \A k \in RowsWritten : store[k].present
       /\ (active.key \in DOMAIN store /\ store[active.key].present) =>
              RowsWritten \subseteq {active.key}
       /\ (\A k \in DOMAIN store : ~store[k].present) => store' = store
       /\ (gen' # gen /\ ret' # ret /\ Len(pool) > 0
             /\ \E k \in DOMAIN store : store[k].present) => RowsWritten # {}
       /\ creds_file'.exists => creds_file.exists]_vars

\* C35: persisting the refreshed tokens of one account never changes the
\* stored record or the pool entry of another: the access token and the
\* refresh secret held for each credential key, in the pool and in the
\* store, are ones issued for that key's own account.
C35_TokensOfOwnAccount ==
    \A k \in 1..Len(pool) :
        /\ pool[k].tok.a \in {0, pool[k].key}
        /\ pool[k].rt.a = pool[k].key
        /\ store[k].present => (store[k].tok.a \in {0, k} /\ store[k].rt.a = k)

TextDeltas == {p \in DOMAIN blocks : blocks[p].type = "content_block_delta"}

\* C36: every text content_block_delta of an Anthropic stream carries index
\* 0 and comes after the content_block_start of index 0 and before the
\* content_block_stop of index 0, also when the upstream sends text after a
\* tool call.
C36_TextDeltasInsideBlockZero ==
    \A p \in TextDeltas :
        /\ blocks[p].index = 0
        /\ \E q \in 1..(p - 1) :
              blocks[q].type = "content_block_start" /\ blocks[q].index = 0
        /\ ~\E q \in 1..(p - 1) :
              blocks[q].type = "content_block_stop" /\ blocks[q].index = 0

BatchCounted ==
    anthropic_batch.succeeded + anthropic_batch.errored + anthropic_batch.canceled

\* C37: for every batch at every moment succeeded + errored + canceled +
\* processing is at most the number of requests of the batch, and once the
\* batch is ended or canceled processing is 0 and succeeded + errored +
\* canceled equals the number of requests.
C37_CountsAddUp ==
    anthropic_batch.exists =>
        /\ BatchCounted + anthropic_batch.processing <= Len(anthropic_batch.requests)
        /\ anthropic_batch.processing_status \in {"ended", "canceled"} =>
              /\ anthropic_batch.processing = 0
              /\ BatchCounted = Len(anthropic_batch.requests)

\* the batch was canceled or deleted
BatchInterrupted ==
    ~anthropic_batch.exists \/ anthropic_batch.processing_status = "canceled"

\* the batch is ended with one result per request, in request order, each
\* request that was accepted having been sent upstream
BatchEndedWhole ==
    /\ anthropic_batch.processing_status = "ended"
    /\ Len(batch_results) = Len(anthropic_batch.requests)
    /\ \A i \in 1..Len(batch_results) :
          /\ batch_results[i].custom_id = i
          /\ batch_results[i].called = anthropic_batch.requests[i]

\* C38: a batch that is never canceled or deleted eventually reaches
\* processing_status ended; it then holds exactly one result per request, in
\* request order, and the failure of one item does not keep the following
\* items from being executed.
C38_BatchEnds ==
    /\ [](anthropic_batch.exists /\ anthropic_batch.processing_status = "ended"
            => BatchEndedWhole)
    /\ (batch_task.pc = "created" ~> (BatchInterrupted \/ BatchEndedWhole))

\* C38 witness: a batch of two requests has ended, its first item failed
\* upstream and its second succeeded.
C38_Witness ==
    /\ anthropic_batch.exists /\ BatchEndedWhole
    /\ Len(batch_results) = 2
    /\ batch_results[1].type = "errored" /\ batch_results[1].called
    /\ batch_results[2].type = "succeeded"

\* C39: the results stream emits each recorded result exactly once, in the
\* order recorded, and ends only when the batch is ended, canceled or
\* deleted; when it has ended for a batch that was not deleted, every result
\* that batch ever records has been emitted.
C39_StreamEmitsEverything ==
    /\ results_stream.yielded = Len(results_stream.emitted)
    /\ Len(results_stream.emitted) <= Len(recorded)
    /\ results_stream.emitted = SubSeq(recorded, 1, Len(results_stream.emitted))
    /\ results_stream.pc = "ended" =>
          \/ ~anthropic_batch.exists
          \/ /\ anthropic_batch.processing_status \in {"ended", "canceled"}
             /\ results_stream.emitted = recorded

\* the store holds a registration record under key k
HoldsRegistration(k) == k \in RegistrationKeys /\ auth_kv.regs[k] \notin {"absent", "empty"}

\* the registration record paired with a token key: the one of the same
\* suffix when the store holds it, else an unsuffixed one
PairedRegistrations(token_key) ==
    IF HoldsRegistration(KvKey(token_key.ns, token_key.suffix))
    THEN {KvKey(token_key.ns, token_key.suffix)}
    ELSE IF HoldsRegistration(KvKey(token_key.ns, 0)) THEN {KvKey(token_key.ns, 0)}
    ELSE {k \in RegistrationKeys : token_key.ns # "kirocli:social" /\ k.suffix = 0
                                   /\ HoldsRegistration(k)}

\* C40: on load from either KV variant a token record for which the store
\* holds a paired registration record with client-id and client-secret is
\* tagged device-oauth and one without is tagged desktop-refresh, and a
\* later refresh of the account uses the protocol of its tag.
C40_TaggedByRegistration ==
    /\ \A i \in 1..Len(accounts) :
          accounts[i].auth_type =
             IF \E k \in PairedRegistrations(accounts[i].key) :
                   auth_kv.regs[k] = "client_id_secret"
             THEN "aws_sso_oidc" ELSE "kiro_desktop"
    /\ refresh_protocol # NoRefreshSent =>
          \E i \in 1..Len(accounts) :
             /\ accounts[i].key = refresh_protocol.key
             /\ refresh_protocol.sent =
                   IF accounts[i].auth_type = "aws_sso_oidc"
                   THEN "_refresh_token_aws_sso_oidc" ELSE "_refresh_token_kiro_desktop"

====
